---- MODULE Spec2Model ----
(***************************************************************************)
(* Model of scholar_scraper.py (GoogleScholarScraper): the multi-tier      *)
(* publication detail fetch (_fetch_details_concurrently and the coroutines *)
(* it runs), the block counter (_record_block / _clear_block) and the batch *)
(* scheduler (process_authors_batch).                                       *)
(*                                                                         *)
(* Coroutines of one event loop are modelled with one action per stretch of *)
(* code between two awaits: asyncio runs such a stretch without             *)
(* interleaving.  The model covers runs in which the httpx package can be   *)
(* imported.                                                                *)
(***************************************************************************)
EXTENDS Naturals, Integers, Sequences, FiniteSets, TLC

\* ------------------------------------------------------------------ bounds
NPubs == 2
MaxRetries == 2
MaxConcurrency == 2
NRows == 3
MaxAuthorConcurrency == 2
MaxBlockLimit == 2
MaxScrapeEvents == 2
MaxClock == 3
MaxBlockCount == 2
MaxLines == 2
MaxParseCalls == 2

Pubs == 1..NPubs
None == "None"

\* self.max_retries (the constructor sets 5; the model runs with the bound)
max_retries == MaxRetries

\* --------------------------------------------------- response bodies, parser
\* A body is described by what the classifier and the parser look at:
\* whether it is empty, which marker phrases it contains (case-folded), and
\* what _parse_publication_details_from_html can extract from it.
EmptyBody == [empty |-> TRUE, unusual |-> FALSE, typechars |-> FALSE,
              recaptcha |-> FALSE, sorry |-> FALSE, fields |-> "none"]

Bodies ==
    {EmptyBody} \cup
    [empty : {FALSE}, unusual : BOOLEAN, typechars : BOOLEAN,
     recaptcha : BOOLEAN, sorry : BOOLEAN, fields : {"none", "title", "other"}]

\* _detect_captcha_or_unusual_traffic: the tests are made in source order
_detect_captcha_or_unusual_traffic(html) ==
    IF html.empty THEN None
    ELSE IF html.unusual THEN "unusual traffic detected"
    ELSE IF html.typechars THEN "captcha challenge"
    ELSE IF html.recaptcha THEN "captcha challenge"
    ELSE IF html.sorry /\ html.unusual THEN "blocked - sorry/unusual traffic"
    ELSE None

\* ------------------------------------------------------------- block state
\* _record_block / _clear_block on the pair (_block_count, _blocked_reason)
_record_block_twice(st, reason) == [count |-> st.count + 2, reason |-> reason]

_record_block(st, reason) == [count |-> st.count + 1, reason |-> reason]

_clear_block_decrement(st) ==
    [count |-> IF st.count > 0 THEN st.count - 1 ELSE 0, reason |-> None]

_clear_block_reason_only(st) == [count |-> st.count, reason |-> None]

\* a reset of the counter that keeps the reason
_clear_block_count_only(st) == [count |-> 0, reason |-> st.reason]

_clear_block(st) == [count |-> 0, reason |-> None]

\* _parse_publication_details_from_html: None for a block page (recording the
\* block), otherwise the dict of the fields found; "none" is the empty dict
\* (or a parse error), which the callers treat like None.
ParseDetails(html, st) ==
    LET reason == _detect_captcha_or_unusual_traffic(html)
    IN  IF reason # None
        THEN [details |-> "none", st |-> _record_block(st, reason)]
        ELSE [details |-> html.fields, st |-> st]

\* an update that writes the placeholder when the page has no title
UpdatedPubPlaceholder(pub, details) ==
    IF details = "title" THEN [pub EXCEPT !.title = "parsed"]
    ELSE [pub EXCEPT !.title = "N/A"]

\* pub.update(details): only a parsed title replaces the title
UpdatedPub(pub, details) ==
    IF details = "title" THEN [pub EXCEPT !.title = "parsed"] ELSE pub

\* ---------------------------------------------------------------- responses
\* The bodies the runs are fed: with a non-200 status the body is never read,
\* and among bodies with the same classification and the same parse result a
\* run cannot tell one from another.
CleanBody(f) == [empty |-> FALSE, unusual |-> FALSE, typechars |-> FALSE,
                 recaptcha |-> FALSE, sorry |-> FALSE, fields |-> f]

BlockBody == [empty |-> FALSE, unusual |-> TRUE, typechars |-> FALSE,
              recaptcha |-> FALSE, sorry |-> TRUE, fields |-> "none"]

RunBodies == {EmptyBody, BlockBody, CleanBody("none"), CleanBody("title"),
              CleanBody("other")}

\* what `await client.get(...)` can produce: a response or an exception
Responses ==
    [kind : {"resp"}, status : {200}, text : RunBodies] \cup
    [kind : {"resp"}, status : {302, 429, 500}, text : {EmptyBody}] \cup
    {[kind |-> "exc", status |-> 0, text |-> EmptyBody]}

\* a loop body that returns the body of every HTTP 200 without classifying it
HandleResponseReturnsAny200(r, st) ==
    IF r.kind = "exc" THEN [ret |-> FALSE, st |-> st]
    ELSE IF r.status = 200 /\ ~r.text.empty
    THEN [ret |-> TRUE, st |-> _clear_block(st)]
    ELSE [ret |-> FALSE,
          st |-> IF r.status = 429 THEN _record_block(st, "httpx 429") ELSE st]

\* a loop body that also counts a server error as a block
HandleResponseCountsServerErrors(r, st) ==
    IF r.kind = "exc" THEN [ret |-> FALSE, st |-> st]
    ELSE LET reason == _detect_captcha_or_unusual_traffic(r.text)
             st1 == IF r.status = 200 /\ ~r.text.empty
                    THEN (IF reason # None THEN _record_block(st, reason)
                                           ELSE _clear_block(st))
                    ELSE st
         IN  IF r.status = 200 /\ ~r.text.empty /\ reason = None
             THEN [ret |-> TRUE, st |-> st1]
             ELSE [ret |-> FALSE,
                   st |-> IF r.status = 429 THEN _record_block(st1, "httpx 429")
                          ELSE IF r.status >= 500 THEN _record_block(st1, "httpx 5xx")
                          ELSE st1]

\* One pass through the body of the retry loop of
\* _fetch_detail_via_httpx_async after the awaited request has produced r:
\* ret = TRUE when the loop returns resp.text, FALSE when it goes on to the
\* backoff sleep.
HandleResponse(r, st) ==
    IF r.kind = "exc" THEN [ret |-> FALSE, st |-> st]
    ELSE LET reason == _detect_captcha_or_unusual_traffic(r.text)
             st1 == IF r.status = 200 /\ ~r.text.empty
                    THEN (IF reason # None THEN _record_block(st, reason)
                                           ELSE _clear_block(st))
                    ELSE st
         IN  IF r.status = 200 /\ ~r.text.empty /\ reason = None
             THEN [ret |-> TRUE, st |-> st1]
             ELSE [ret |-> FALSE,
                   st |-> IF r.status = 429 THEN _record_block(st1, "httpx 429")
                          ELSE st1]

\* `return resp.text`
ReturnedTextBlank(r) == EmptyBody

ReturnedText(r) == r.text

\* _pick_proxy on a pool (has_pool: self.proxies is not empty): one of its
\* entries, None without a pool
_pick_proxy(has_pool) == IF has_pool THEN "pooled" ELSE None

\* the proxy of the request of attempt att: the pool is used on every attempt
RequestProxyAlways(has_pool, att) == _pick_proxy(has_pool)

\* the proxy of the request of attempt att: direct first, then the pool
RequestProxy(has_pool, att) ==
    IF has_pool THEN (IF att = 0 THEN None ELSE _pick_proxy(has_pool)) ELSE None

\* the loop test `while attempt < self.max_retries` after `attempt += 1`
RetryAllowedOffByOne(att) == att <= max_retries

RetryAllowed(att) == att < max_retries


\* ------------------------------------------------------------------- state
VARIABLES
    driver,          \* self.driver: "selenium" or "playwright"
    use_httpx,       \* self.use_httpx
    proxies,         \* TRUE when self.proxies is a non-empty list
    concurrency,     \* self.concurrency
    publications,    \* the list handed to _fetch_details_concurrently
    publications0,   \* history: that list as it was at the call
    phase,           \* where _fetch_details_concurrently is
    pc,              \* per target: position of the worker / loop body
    attempt,         \* per target: `attempt` of the running httpx fetch
    proxy,           \* per target: `proxy` of the request being sent
    sem,             \* free permits of the tier's asyncio.Semaphore
    failed_indices,  \* failed_indices of _fetch_all_details_async
    successful,      \* `successful` of _fetch_details_concurrently
    failed,          \* `failed` of _fetch_details_concurrently
    success_holder,  \* success_holder[0] of the Playwright tier
    fail_holder,     \* fail_holder[0] of the Playwright tier
    gatherRaised,    \* a Playwright worker raised: asyncio.gather re-raises
    seqPos,          \* position of the sequential loop in its list
    seqReason,       \* block_reason held by _get_publication_details
    _block_count,    \* self._block_count
    _blocked_reason, \* self._blocked_reason
    \* history variables (observations, never read by the actions' guards)
    hist,            \* per target: the fetch mechanisms applied, in order
    resolvers,       \* per target: the tiers that updated its record
    requests,        \* per target: requests sent by the current httpx fetch
    fetchResult,     \* per target: result of its last httpx fetch
    allBlocked,      \* every response so far was a 200 block page
    clearedNonzero,  \* a clean 200 has reset a non-zero _block_count
    unrecorded,      \* block detections minus _record_block calls
    fetchBody,       \* per target: the text its last httpx fetch returned
    lastClean,       \* per target: the clean 200 body its fetch was answered with
    delays,          \* self._random_delay() calls made by the sequential loops
    fastBlocked,     \* the fast tier got answers, and all were 200 block pages
    \* process_authors_batch
    rows,            \* the data rows of the CSV file
    authors,         \* load_authors_from_csv(csv_file)
    author_concurrency,
    pause_on_block,  \* self.pause_on_block
    block_retry_limit,  \* self.block_retry_limit
    results,         \* the dict user_id -> bool
    bpc,             \* position of process_authors_batch
    jobIdx,          \* sequential mode: index of the author being processed
    events,          \* block events of the running scrape_profile call(s)
    jpc,             \* per job: position of the job (and of its worker thread)
    outcome,         \* per job: how scrape_profile / save_to_json ended
    child,           \* per job: _block_count, _blocked_reason of its scraper
    pauses,          \* history: time.sleep(blocked_pause_seconds) calls
    clock,           \* parallel mode: wall time, in units of one job duration T
    startAt,         \* per job: the time at which its thread took it
    equalT,          \* history: every job returned so far has run for exactly T
    \* one call of _fetch_detail_via_httpx_async, with its backoff
    fpc,             \* position of the call
    fattempt,        \* `attempt`
    frequests,       \* history: requests the call has sent
    backoff_factor,  \* self.backoff_factor, in milliseconds
    sleepLog,        \* history: the asyncio.sleep calls of the call, in order
    fresult,         \* what the call returned
    \* direct calls of _detect_captcha_or_unusual_traffic
    classified,      \* the last call: its argument and its result
    repeatCheck,     \* history: did a repeated argument give the same result
    \* _load_all_publications / _parse_publication_list
    ppc,             \* position of the profile load
    driverPage,      \* the HTML the driver's page holds
    block_reason,    \* `block_reason` of _load_all_publications
    _profile_html_cache,  \* self._profile_html_cache (EmptyBody for None)
    parsed,          \* history: source and HTML of the last list parse
    parseCalls,      \* history: _parse_publication_list calls made
    \* main and the credential files
    mpc,             \* position of main
    args,            \* the parsed command line
    user_agents,     \* self.user_agents (<<>> for None)
    proxy_pool,      \* self.proxies, as the list it holds (<<>> for None)
    lastLoad,        \* history: the last load_*_from_file call and how it ended
    fetchStarted,    \* history: main has called scrape_profile / process_authors_batch
    \* the scraper a worker of the parallel batch constructs
    blocked_pause_seconds,  \* self.blocked_pause_seconds of the parent
    child_options,   \* the options of `child` when the worker calls scrape_profile
    \* the browser contexts of _fetch_details_with_playwright_async
    _shared_context, \* _worker._shared_context (0 while the attribute is absent)
    created,         \* history: browser.new_context calls that returned a context
    closed,          \* history: the contexts that were closed
    context,         \* per worker: its local `context` (0 while unassigned)
    pageUnbound      \* history: a worker used `page` without having assigned it

batchVars == <<rows, authors, author_concurrency, pause_on_block, block_retry_limit,
               results, bpc, jobIdx, events, jpc, outcome, child, pauses, clock,
               startAt, equalT>>
timeVars == <<clock, startAt, equalT>>
fetch1Vars == <<fpc, fattempt, frequests, backoff_factor, sleepLog, fresult>>
classifyVars == <<classified, repeatCheck>>
profileVars == <<ppc, driverPage, block_reason, _profile_html_cache, parsed, parseCalls>>
workerVars == <<blocked_pause_seconds, child_options>>
configVars == <<mpc, args, user_agents, proxy_pool, lastLoad, fetchStarted, workerVars>>
heavyVars == <<_shared_context, created, closed, context, pageUnbound>>
sideVars == <<fetch1Vars, classifyVars, profileVars, configVars, heavyVars>>
cfgVars == <<driver, use_httpx, proxies, concurrency, publications0, batchVars,
             sideVars>>
runVars == <<publications, phase, pc, attempt, proxy, sem, failed_indices, successful,
             failed, success_holder, fail_holder, gatherRaised, seqPos, seqReason>>
blockVars == <<_block_count, _blocked_reason>>
bodyVars == <<fetchBody, lastClean>>
histVars == <<hist, resolvers, requests, fetchResult, allBlocked, clearedNonzero,
              unrecorded, bodyVars, delays, fastBlocked>>
vars == <<cfgVars, runVars, blockVars, histVars>>
fetchCore == <<driver, use_httpx, proxies, concurrency, publications0, runVars,
               histVars>>
fetchVars == <<fetchCore, sideVars>>

Rows == 1..NRows
FreshBlockState == [count |-> 0, reason |-> None]
EmptyResults == [u \in {} |-> FALSE]

\* no batch is running
BatchIdle ==
    /\ rows = <<>>
    /\ authors = <<>>
    /\ author_concurrency = 1
    /\ pause_on_block = TRUE
    /\ block_retry_limit = 1
    /\ results = EmptyResults
    /\ bpc = "idle"
    /\ jobIdx = 0
    /\ events = [j \in Rows |-> 0]
    /\ jpc = [j \in Rows |-> "none"]
    /\ outcome = [j \in Rows |-> "pending"]
    /\ child = [j \in Rows |-> FreshBlockState]
    /\ pauses = 0
    /\ clock = 0
    /\ startAt = [j \in Rows |-> 0]
    /\ equalT = TRUE

\* self.backoff_factor as the constructor sets it: 0.5 s
DefaultBackoff == 500

\* no response: the placeholder of `answer` while a call has not returned a body
NoAnswer == [kind |-> "exc", status |-> 0, text |-> EmptyBody]

\* what a call returned (text), and as history the response it returned on
NoResult == [ret |-> "pending", text |-> EmptyBody, answer |-> NoAnswer]

\* `return None`
NoneResult == [ret |-> "none", text |-> EmptyBody, answer |-> NoAnswer]

\* no call of _fetch_detail_via_httpx_async is followed on its own
Fetch1Idle ==
    /\ fpc = "idle"
    /\ fattempt = 0
    /\ frequests = 0
    /\ backoff_factor = DefaultBackoff
    /\ sleepLog = <<>>
    /\ fresult = NoResult

NoCall == [html |-> EmptyBody, result |-> None, made |-> FALSE]

ClassifyIdle ==
    /\ classified = NoCall
    /\ repeatCheck = "no repeat"

NotParsed == [from |-> "none", html |-> EmptyBody, blocked |-> FALSE]

ProfileIdle ==
    /\ ppc = "idle"
    /\ driverPage = EmptyBody
    /\ block_reason = None
    /\ _profile_html_cache = EmptyBody
    /\ parsed = NotParsed
    /\ parseCalls = 0

\* a path that names no file
MissingFile == [exists |-> FALSE, lines |-> <<>>]

NoFileArg == [given |-> FALSE, file |-> MissingFile]

NoArgs == [user_agent_file |-> NoFileArg, proxy_file |-> NoFileArg, proxy |-> "",
           generate_ua_file |-> FALSE]

NoLoad == [which |-> "none", file |-> MissingFile, raised |-> FALSE]

\* self.block_retry_limit and self.blocked_pause_seconds as the constructor
\* sets them: 3 detections, 300 s
DefaultBlockLimit == 3

DefaultPause == 300

\* the options of a scraper as the constructor leaves it (self.concurrency = 8
\* and self.max_retries = 5 there)
ConstructorOptions ==
    [made |-> TRUE, use_httpx |-> TRUE, concurrency |-> 8, max_retries |-> 5,
     backoff_factor |-> DefaultBackoff, user_agents |-> <<>>, proxies |-> <<>>,
     block_retry_limit |-> DefaultBlockLimit, pause_on_block |-> TRUE,
     blocked_pause_seconds |-> DefaultPause]

\* no worker has constructed a scraper
NoChild == [ConstructorOptions EXCEPT !.made = FALSE]

WorkerIdle ==
    /\ blocked_pause_seconds = DefaultPause
    /\ child_options = NoChild

ConfigIdle ==
    /\ WorkerIdle
    /\ mpc = "idle"
    /\ args = NoArgs
    /\ user_agents = <<>>
    /\ proxy_pool = <<>>
    /\ lastLoad = NoLoad
    /\ fetchStarted = FALSE

\* no Playwright tier is followed context by context
HeavyIdle ==
    /\ _shared_context = 0
    /\ created = 0
    /\ closed = {}
    /\ context = [i \in Pubs |-> 0]
    /\ pageUnbound = FALSE

SideIdle == Fetch1Idle /\ ClassifyIdle /\ ProfileIdle /\ ConfigIdle /\ HeavyIdle

BlockState == [count |-> _block_count, reason |-> _blocked_reason]

SetBlockState(st) ==
    /\ _block_count' = st.count
    /\ _blocked_reason' = st.reason

\* `asyncio.Semaphore(self.concurrency)` of _fetch_all_details_async
FastCeiling == concurrency

\* a Playwright tier that keeps one permit fewer than the fast tier
HeavyCeilingSmaller == IF concurrency > 1 THEN concurrency - 1 ELSE 1

\* `asyncio.Semaphore(self.concurrency)` of _fetch_details_with_playwright_async
HeavyCeiling == concurrency

\* the kinds of record _parse_publication_list can hand over, plus records
\* without a usable citation_url
PubKinds ==
    { [url |-> "url", title |-> "stub"],
      [url |-> "url", title |-> "N/A"],
      [url |-> "empty", title |-> "stub"],
      [url |-> "missing", title |-> "stub"] }

\* `not url` in the workers: the key is absent or the string is empty
HasUrl(i) == publications[i].url = "url"

\* the state after construction and configuration, at the call of
\* _fetch_details_concurrently(publications), with self.concurrency drawn
\* from C when the fast tier is enabled
InitWith(C) ==
    /\ BatchIdle
    /\ SideIdle
    /\ driver \in {"selenium", "playwright"}
    /\ use_httpx \in BOOLEAN
    /\ proxies \in (IF use_httpx /\ driver = "playwright" THEN BOOLEAN ELSE {FALSE})
    /\ concurrency \in (IF use_httpx THEN C ELSE {1})
    /\ publications \in [Pubs -> PubKinds]
    /\ publications0 = publications
    /\ phase = IF use_httpx THEN "fast" ELSE "nohttpx"
    /\ pc = [i \in Pubs |-> "idle"]
    /\ attempt = [i \in Pubs |-> 0]
    /\ proxy = [i \in Pubs |-> None]
    /\ sem = FastCeiling
    /\ failed_indices = <<>>
    /\ successful = 0
    /\ failed = 0
    /\ success_holder = 0
    /\ fail_holder = 0
    /\ gatherRaised = FALSE
    /\ seqPos = 1
    /\ seqReason = None
    /\ _block_count = 0
    /\ _blocked_reason = None
    /\ hist = [i \in Pubs |-> <<>>]
    /\ resolvers = [i \in Pubs |-> {}]
    /\ requests = [i \in Pubs |-> 0]
    /\ fetchResult = [i \in Pubs |-> "pending"]
    /\ allBlocked = TRUE
    /\ clearedNonzero = FALSE
    /\ unrecorded = 0
    /\ fetchBody = [i \in Pubs |-> EmptyBody]
    /\ lastClean = [i \in Pubs |-> EmptyBody]
    /\ delays = 0
    /\ fastBlocked = FALSE

\* a scraper configured with a concurrency of at least 1
Init == InitWith(1..MaxConcurrency)

IsBlockPage200(r) ==
    /\ r.kind = "resp"
    /\ r.status = 200
    /\ _detect_captcha_or_unusual_traffic(r.text) # None

\* a response that the classifier flags, or an HTTP 429
IsDetection(r) ==
    /\ r.kind = "resp"
    /\ \/ r.status = 429
       \/ r.status = 200 /\ _detect_captcha_or_unusual_traffic(r.text) # None

\* _record_block calls made while handling r (a pass that returns has made
\* none: it cleared the state instead)
RecordCalls(h) == IF h.ret THEN 0 ELSE h.st.count - _block_count

\* an HTTP 200 answer with a body that is not empty and carries no block marker
IsClean200(r) ==
    /\ r.kind = "resp"
    /\ r.status = 200
    /\ ~r.text.empty
    /\ _detect_captcha_or_unusual_traffic(r.text) = None

\* history bookkeeping of the bodies: what target i's fetch was answered with
\* and what the fetch returned
ObserveBody(i, r, h) ==
    /\ lastClean' = [lastClean EXCEPT ![i] = IF IsClean200(r) THEN r.text ELSE @]
    /\ fetchBody' = [fetchBody EXCEPT ![i] = IF h.ret THEN ReturnedText(r) ELSE @]

\* history bookkeeping for one answered httpx request
ObserveResponse(r, h) ==
    /\ allBlocked' = (allBlocked /\ IsBlockPage200(r))
    /\ clearedNonzero' = (clearedNonzero \/ (h.ret /\ _block_count > 0))
    /\ unrecorded' = unrecorded + (IF IsDetection(r) THEN 1 ELSE 0) - RecordCalls(h)

Append1(f, i, x) == [f EXCEPT ![i] = Append(@, x)]

InSeq(q, x) == \E k \in 1..Len(q) : q[k] = x

\* position of x in q (0 when absent)
IndexOf(q, x) == IF InSeq(q, x) THEN CHOOSE k \in 1..Len(q) : q[k] = x ELSE 0

\* ------------------------------------------ fast tier: _fetch_all_details_async
\* `failed_indices.append(idx)`, made twice
MarkFailedTwice(q, i) == Append(Append(q, i), i)

\* `failed_indices.append(idx)`
MarkFailed(q, i) == Append(q, i)

\* leaving `async with sem` without giving the permit back
ReleaseLeaks(s) == s

\* leaving `async with sem` (by return or by exception) frees one permit
Release(s) == s + 1

\* `async with sem` of a worker whose semaphore has no free permit blocks
AcquireUnguarded == TRUE

Acquire == sem > 0

\* _worker starts: it takes a permit; without a url it records the index and
\* leaves, otherwise _fetch_detail_via_httpx_async sends request 0.
FastStart(i) ==
    /\ phase = "fast"
    /\ pc[i] = "idle"
    /\ \A j \in Pubs : j < i => pc[j] # "idle"
    /\ Acquire
    /\ IF ~HasUrl(i)
       THEN /\ failed_indices' = MarkFailed(failed_indices, i)
            /\ pc' = [pc EXCEPT ![i] = "done"]
            /\ UNCHANGED <<sem, attempt, proxy, hist, requests>>
       ELSE /\ sem' = sem - 1
            /\ pc' = [pc EXCEPT ![i] = "get"]
            /\ attempt' = [attempt EXCEPT ![i] = 0]
            /\ proxy' = [proxy EXCEPT ![i] = RequestProxy(proxies, 0)]
            /\ requests' = [requests EXCEPT ![i] = 1]
            /\ hist' = Append1(hist, i, "fast")
            /\ UNCHANGED failed_indices
    /\ UNCHANGED <<cfgVars, publications, phase, successful, failed, success_holder,
                   fail_holder, gatherRaised, seqPos, seqReason, blockVars,
                   resolvers, fetchResult, allBlocked, clearedNonzero, unrecorded,
                   bodyVars, delays, fastBlocked>>

\* the awaited request of worker i is answered by r; on a clean 200 the fetch
\* returns and the worker parses the body, updates the record or marks the
\* index for fallback, and releases its permit.
FastRespond(i, r) ==
    /\ phase = "fast"
    /\ pc[i] = "get"
    /\ LET h == HandleResponse(r, BlockState)
           p == ParseDetails(r.text, h.st)
       IN  /\ ObserveResponse(r, h)
           /\ ObserveBody(i, r, h)
           /\ IF h.ret
              THEN /\ SetBlockState(p.st)
                   /\ fetchResult' = [fetchResult EXCEPT ![i] = "body"]
                   /\ pc' = [pc EXCEPT ![i] = "done"]
                   /\ sem' = Release(sem)
                   /\ IF p.details # "none"
                      THEN /\ publications' = [publications EXCEPT
                                                 ![i] = UpdatedPub(@, p.details)]
                           /\ resolvers' = [resolvers EXCEPT ![i] = @ \cup {"fast"}]
                           /\ UNCHANGED failed_indices
                      ELSE /\ failed_indices' = MarkFailed(failed_indices, i)
                           /\ UNCHANGED <<publications, resolvers>>
              ELSE /\ SetBlockState(h.st)
                   /\ pc' = [pc EXCEPT ![i] = "sleep"]
                   /\ UNCHANGED <<sem, fetchResult, publications, resolvers,
                                  failed_indices>>
    /\ UNCHANGED <<cfgVars, phase, attempt, proxy, successful, failed, success_holder,
                   fail_holder, gatherRaised, seqPos, seqReason, hist, requests,
                   delays, fastBlocked>>

\* the backoff sleep of worker i ends: attempt += 1, then either the next
\* request goes out or the fetch returns None and the index is marked.
FastWake(i) ==
    /\ phase = "fast"
    /\ pc[i] = "sleep"
    /\ attempt' = [attempt EXCEPT ![i] = @ + 1]
    /\ IF RetryAllowed(attempt[i] + 1)
       THEN /\ pc' = [pc EXCEPT ![i] = "get"]
            /\ proxy' = [proxy EXCEPT ![i] = RequestProxy(proxies, attempt[i] + 1)]
            /\ requests' = [requests EXCEPT ![i] = @ + 1]
            /\ UNCHANGED <<sem, failed_indices, fetchResult>>
       ELSE /\ pc' = [pc EXCEPT ![i] = "done"]
            /\ fetchResult' = [fetchResult EXCEPT ![i] = "none"]
            /\ failed_indices' = MarkFailed(failed_indices, i)
            /\ sem' = Release(sem)
            /\ UNCHANGED <<requests, proxy>>
    /\ UNCHANGED <<cfgVars, publications, phase, successful, failed, success_holder,
                   fail_holder, gatherRaised, seqPos, seqReason, blockVars, hist,
                   resolvers, allBlocked, clearedNonzero, unrecorded, bodyVars,
                   delays, fastBlocked>>

\* `p.get('title') and not p.get('title').startswith('N/A')`
TitleCounts(pub) == pub.title # "N/A"

\* a count that leaves out the test `i not in failed_indices`
CountedByFastTierAnyIndex(i) == TitleCounts(publications[i])

\* `if i not in failed_indices and p.get('title') and not ...startswith('N/A')`
CountedByFastTier(i) ==
    /\ ~InSeq(failed_indices, i)
    /\ TitleCounts(publications[i])

\* the sequential loop is entered at its first element; an empty list ends
\* the call
EnterSequential(targets) ==
    /\ phase' = IF Len(targets) = 0 THEN "done" ELSE "seq"
    /\ seqPos' = 1
    /\ pc' = [i \in Pubs |-> IF InSeq(targets, i) THEN "idle" ELSE "done"]

\* asyncio.run(_fetch_all_details_async) has returned: count the records the
\* fast tier updated and pick the fallback for failed_indices.
FastFinish ==
    /\ phase = "fast"
    /\ \A i \in Pubs : pc[i] = "done"
    /\ successful' = Cardinality({i \in Pubs : CountedByFastTier(i)})
    /\ IF failed_indices = <<>>
       THEN /\ phase' = "done"
            /\ UNCHANGED <<pc, seqPos, sem>>
       ELSE IF driver = "playwright"
       THEN /\ phase' = "heavy"
            /\ pc' = [i \in Pubs |-> IF InSeq(failed_indices, i) THEN "idle" ELSE "done"]
            /\ sem' = HeavyCeiling
            /\ UNCHANGED seqPos
       ELSE /\ EnterSequential(failed_indices)
            /\ UNCHANGED sem
    /\ attempt' = [i \in Pubs |-> 0]
    /\ proxy' = [i \in Pubs |-> None]
    /\ requests' = [i \in Pubs |-> 0]
    /\ fetchResult' = [i \in Pubs |-> "pending"]
    /\ fetchBody' = [i \in Pubs |-> EmptyBody]
    /\ lastClean' = [i \in Pubs |-> EmptyBody]
    /\ fastBlocked' = (allBlocked /\ \E i \in Pubs : InSeq(hist[i], "fast"))
    /\ allBlocked' = FALSE
    /\ clearedNonzero' = FALSE
    /\ UNCHANGED <<cfgVars, publications, failed_indices, failed, success_holder,
                   fail_holder, gatherRaised, seqReason, blockVars, hist, resolvers,
                   unrecorded, delays>>

\* --------------------- heavy tier: _fetch_details_with_playwright_async
\* what the driver (or a Playwright page) hands back: page HTML or an exception
DriverOutcomes ==
    [kind : {"html"}, text : RunBodies] \cup {[kind |-> "exc", text |-> EmptyBody]}

HeavyNotStarted ==
    /\ phase = "heavy"
    /\ \A i \in Pubs : pc[i] \in {"idle", "done"}
    /\ \A i \in Pubs : InSeq(failed_indices, i) => pc[i] = "idle"

\* the import fails and the targets are handed to the sequential loop
HeavyImportFailsEscalates ==
    /\ HeavyNotStarted
    /\ EnterSequential(failed_indices)
    /\ UNCHANGED <<cfgVars, publications, attempt, proxy, sem, failed_indices, successful,
                   failed, success_holder, fail_holder, gatherRaised, seqReason,
                   blockVars, histVars>>

\* `from playwright.async_api import async_playwright` fails: the coroutine
\* returns (0, len(indices)) and the caller adds that to `failed`.
HeavyImportFails ==
    /\ HeavyNotStarted
    /\ failed' = failed + Len(failed_indices)
    /\ phase' = "done"
    /\ UNCHANGED <<cfgVars, publications, pc, attempt, proxy, sem, failed_indices, successful,
                   success_holder, fail_holder, gatherRaised, seqPos, seqReason,
                   blockVars, histVars>>

\* the except branch of _fetch_details_concurrently: asyncio.run of the
\* Playwright tier raised, every index of failed_indices goes through the
\* sequential loop
HeavyFallback ==
    /\ EnterSequential(failed_indices)
    /\ success_holder' = 0
    /\ fail_holder' = 0
    /\ sem' = concurrency
    /\ UNCHANGED <<cfgVars, publications, attempt, proxy, failed_indices, successful,
                   failed, seqReason, blockVars, histVars>>

\* A worker raises: gather re-raises at once, asyncio.run cancels the workers
\* still running and the exception reaches the except branch of
\* _fetch_details_concurrently.  (What a worker could still do while the
\* browser shuts down it can also do before the exception, in another
\* interleaving.)
HeavyWorkerRaises ==
    /\ gatherRaised' = TRUE
    /\ HeavyFallback

\* async_playwright() or chromium.launch raises before any worker exists
HeavyLaunchRaises ==
    /\ HeavyNotStarted
    /\ HeavyWorkerRaises

\* a worker takes a permit; without a url it counts a failure and leaves,
\* otherwise it asks the browser for a context and a page
HeavyStart(i) ==
    /\ phase = "heavy"
    /\ pc[i] = "idle"
    /\ \A j \in Pubs : IndexOf(failed_indices, j) < IndexOf(failed_indices, i)
                          => pc[j] # "idle"
    /\ Acquire
    /\ IF ~HasUrl(i)
       THEN /\ fail_holder' = fail_holder + 1
            /\ pc' = [pc EXCEPT ![i] = "done"]
            /\ UNCHANGED sem
       ELSE /\ sem' = sem - 1
            /\ pc' = [pc EXCEPT ![i] = "page"]
            /\ UNCHANGED fail_holder
    /\ UNCHANGED <<cfgVars, publications, phase, attempt, proxy, failed_indices, successful,
                   failed, success_holder, gatherRaised, seqPos, seqReason, blockVars,
                   histVars>>

\* new_context / new_page are answered.  Both are outside the try block: an
\* exception leaves the worker.  With a proxy the worker never assigns `page`:
\* page.goto raises UnboundLocalError inside the try (one failure is counted)
\* and page.close() raises it again in the finally block.
HeavyPage(i, ok) ==
    /\ phase = "heavy"
    /\ pc[i] = "page"
    /\ IF ok /\ ~proxies
       THEN /\ pc' = [pc EXCEPT ![i] = "goto"]
            /\ hist' = Append1(hist, i, "heavy")
            /\ UNCHANGED <<cfgVars, publications, phase, attempt, proxy, sem, failed_indices,
                           successful, failed, success_holder, fail_holder,
                           gatherRaised, seqPos, seqReason, blockVars, resolvers,
                           requests, fetchResult, allBlocked, clearedNonzero,
                           unrecorded, bodyVars, delays, fastBlocked>>
       ELSE HeavyWorkerRaises

\* page.goto / page.content are answered: one attempt, no retry
HeavyRespond(i, out) ==
    /\ phase = "heavy"
    /\ pc[i] = "goto"
    /\ pc' = [pc EXCEPT ![i] = "close"]
    /\ LET reason == _detect_captcha_or_unusual_traffic(out.text)
           p == ParseDetails(out.text, BlockState)
       IN  IF out.kind = "exc"
           THEN /\ fail_holder' = fail_holder + 1
                /\ UNCHANGED <<publications, success_holder, blockVars, resolvers>>
           ELSE IF reason # None
           THEN /\ SetBlockState(_record_block(BlockState, reason))
                /\ fail_holder' = fail_holder + 1
                /\ UNCHANGED <<publications, success_holder, resolvers>>
           ELSE IF p.details # "none"
           THEN /\ publications' = [publications EXCEPT ![i] = UpdatedPub(@, p.details)]
                /\ success_holder' = success_holder + 1
                /\ resolvers' = [resolvers EXCEPT ![i] = @ \cup {"heavy"}]
                /\ UNCHANGED <<fail_holder, blockVars>>
           ELSE /\ fail_holder' = fail_holder + 1
                /\ UNCHANGED <<publications, success_holder, blockVars, resolvers>>
    /\ unrecorded' = unrecorded
                     + (IF out.kind = "html"
                           /\ _detect_captcha_or_unusual_traffic(out.text) # None
                        THEN 1 ELSE 0)
                     - (_block_count' - _block_count)
    /\ UNCHANGED <<cfgVars, phase, attempt, proxy, sem, failed_indices, successful, failed,
                   gatherRaised, seqPos, seqReason, hist, requests, fetchResult,
                   allBlocked, clearedNonzero, bodyVars, delays, fastBlocked>>

\* `await page.close()` in the finally block returns, and the permit is
\* released, or it raises
HeavyClose(i, ok) ==
    /\ phase = "heavy"
    /\ pc[i] = "close"
    /\ IF ok
       THEN /\ pc' = [pc EXCEPT ![i] = "done"]
            /\ sem' = Release(sem)
            /\ UNCHANGED <<cfgVars, publications, phase, attempt, proxy, failed_indices,
                           successful, failed, success_holder, fail_holder,
                           gatherRaised, seqPos, seqReason, blockVars, histVars>>
       ELSE HeavyWorkerRaises

\* HeavyFinish without `failed += pw_failed`
HeavyFinishDropsFailed ==
    /\ phase = "heavy"
    /\ \A i \in Pubs : pc[i] = "done"
    /\ successful' = successful + success_holder
    /\ phase' = "done"
    /\ UNCHANGED <<cfgVars, publications, pc, attempt, proxy, sem, failed_indices, failed,
                   success_holder, fail_holder, gatherRaised, seqPos, seqReason,
                   blockVars, histVars>>

\* gather returns: the coroutine returns (success_holder[0], fail_holder[0])
\* and the caller adds them to its counts; no later tier runs.
HeavyFinish ==
    /\ phase = "heavy"
    /\ \A i \in Pubs : pc[i] = "done"
    /\ successful' = successful + success_holder
    /\ failed' = failed + fail_holder
    /\ phase' = "done"
    /\ UNCHANGED <<cfgVars, publications, pc, attempt, proxy, sem, failed_indices,
                   success_holder, fail_holder, gatherRaised, seqPos, seqReason,
                   blockVars, histVars>>

\* ------------------------- sequential tier: loops over _get_publication_details
\* the list the running loop walks: failed_indices after the fast tier, every
\* publication when httpx is disabled
SeqTargets == IF use_httpx THEN failed_indices ELSE [k \in 1..NPubs |-> k]

SeqCurrent == SeqTargets[seqPos]

InSeqLoop == phase \in {"seq", "nohttpx"} /\ seqPos <= Len(SeqTargets)

\* the self._random_delay() that ends a loop body: unconditional in the two
\* loops over failed_indices, `if i < len(publications)` in the loop that runs
\* when httpx is disabled
SeqDelayDue == IF phase = "seq" THEN TRUE ELSE seqPos < Len(SeqTargets)

\* the loop body is over for target i: next element, or the loop ends and
\* _fetch_details_concurrently returns (successful, failed)
SeqAdvance(i) ==
    /\ pc' = [pc EXCEPT ![i] = "done"]
    /\ seqPos' = seqPos + 1
    /\ phase' = IF seqPos + 1 > Len(SeqTargets) THEN "done" ELSE phase
    /\ delays' = delays + (IF SeqDelayDue THEN 1 ELSE 0)

\* `if details: pub.update(details); successful += 1  else: failed += 1`
SeqCount(i, details) ==
    IF details # "none"
    THEN /\ publications' = [publications EXCEPT ![i] = UpdatedPub(@, details)]
         /\ successful' = successful + 1
         /\ resolvers' = [resolvers EXCEPT ![i] = @ \cup {"seq"}]
         /\ UNCHANGED failed
    ELSE /\ failed' = failed + 1
         /\ UNCHANGED <<publications, successful, resolvers>>

\* the httpx fallback of _get_publication_details is tried when use_httpx
FallbackEnabledAlways == TRUE

FallbackEnabled == use_httpx

\* pub['citation_url'] and the driver part of _get_publication_details: the
\* driver page is loaded (out) and classified; a flagged page starts the httpx
\* fallback when use_httpx, otherwise the block is recorded.  An absent key
\* raises KeyError out of _fetch_details_concurrently; an unusable url, an
\* uninitialised driver or a driver error give None.
SeqDriver(out) ==
    /\ InSeqLoop
    /\ pc[SeqCurrent] = "idle"
    /\ LET i == SeqCurrent
           o == IF publications[i].url = "empty"
                THEN [kind |-> "exc", text |-> EmptyBody] ELSE out
           reason == _detect_captcha_or_unusual_traffic(o.text)
           p == ParseDetails(o.text, BlockState)
       IN  IF publications[i].url = "missing"
           THEN /\ phase' = "raised"
                /\ UNCHANGED <<publications, pc, attempt, proxy, successful, failed, seqPos,
                               seqReason, blockVars, histVars>>
           ELSE IF o.kind = "exc"
           THEN /\ hist' = Append1(hist, i, "seq")
                /\ SeqCount(i, "none")
                /\ SeqAdvance(i)
                /\ UNCHANGED <<attempt, proxy, seqReason, blockVars, requests, fetchResult,
                               unrecorded, bodyVars>>
           ELSE IF reason # None /\ FallbackEnabled
           THEN /\ hist' = [hist EXCEPT ![i] = @ \o <<"seq", "httpx">>]
                /\ pc' = [pc EXCEPT ![i] = "get"]
                /\ attempt' = [attempt EXCEPT ![i] = 0]
                /\ proxy' = [proxy EXCEPT ![i] = RequestProxy(proxies, 0)]
                /\ requests' = [requests EXCEPT ![i] = 1]
                /\ fetchResult' = [fetchResult EXCEPT ![i] = "pending"]
                /\ fetchBody' = [fetchBody EXCEPT ![i] = EmptyBody]
                /\ lastClean' = [lastClean EXCEPT ![i] = EmptyBody]
                /\ seqReason' = reason
                /\ unrecorded' = unrecorded + 1
                /\ UNCHANGED <<publications, phase, successful, failed, seqPos,
                               blockVars, resolvers, delays>>
           ELSE IF reason # None
           THEN /\ hist' = Append1(hist, i, "seq")
                /\ SetBlockState(_record_block(BlockState, reason))
                /\ SeqCount(i, "none")
                /\ SeqAdvance(i)
                /\ UNCHANGED <<attempt, proxy, seqReason, requests, fetchResult, unrecorded,
                               bodyVars>>
           ELSE /\ hist' = Append1(hist, i, "seq")
                /\ SeqCount(i, p.details)
                /\ SeqAdvance(i)
                /\ UNCHANGED <<attempt, proxy, seqReason, blockVars, requests, fetchResult,
                               unrecorded, bodyVars>>
    /\ UNCHANGED <<cfgVars, sem, failed_indices, success_holder, fail_holder,
                   gatherRaised, allBlocked, clearedNonzero, fastBlocked>>

\* the fallback's request is answered by r: a clean body is parsed in place of
\* the driver page (after _clear_block), anything else leads to the backoff
SeqRespond(r) ==
    /\ InSeqLoop
    /\ pc[SeqCurrent] = "get"
    /\ LET i == SeqCurrent
           h == HandleResponse(r, BlockState)
           p == ParseDetails(r.text, _clear_block(h.st))
       IN  /\ ObserveResponse(r, h)
           /\ ObserveBody(i, r, h)
           /\ IF h.ret
              THEN /\ SetBlockState(p.st)
                   /\ fetchResult' = [fetchResult EXCEPT ![i] = "body"]
                   /\ seqReason' = None
                   /\ SeqCount(i, p.details)
                   /\ SeqAdvance(i)
              ELSE /\ SetBlockState(h.st)
                   /\ pc' = [pc EXCEPT ![i] = "sleep"]
                   /\ UNCHANGED <<publications, phase, successful, failed, seqPos,
                                  seqReason, resolvers, fetchResult, delays>>
    /\ UNCHANGED <<cfgVars, attempt, proxy, sem, failed_indices, success_holder, fail_holder,
                   gatherRaised, hist, requests, fastBlocked>>

\* the fallback's backoff ends: next request, or the fetch returns None and
\* _get_publication_details records the driver's block and returns None
SeqWake ==
    /\ InSeqLoop
    /\ pc[SeqCurrent] = "sleep"
    /\ LET i == SeqCurrent
       IN  /\ attempt' = [attempt EXCEPT ![i] = @ + 1]
           /\ IF RetryAllowed(attempt[i] + 1)
              THEN /\ pc' = [pc EXCEPT ![i] = "get"]
                   /\ proxy' = [proxy EXCEPT ![i] = RequestProxy(proxies, attempt[i] + 1)]
                   /\ requests' = [requests EXCEPT ![i] = @ + 1]
                   /\ UNCHANGED <<publications, phase, successful, failed, seqPos,
                                  seqReason, blockVars, resolvers, fetchResult,
                                  unrecorded, delays>>
              ELSE /\ fetchResult' = [fetchResult EXCEPT ![i] = "none"]
                   /\ SetBlockState(_record_block(BlockState, seqReason))
                   /\ unrecorded' = unrecorded - 1
                   /\ seqReason' = None
                   /\ SeqCount(i, "none")
                   /\ SeqAdvance(i)
                   /\ UNCHANGED <<requests, proxy>>
    /\ UNCHANGED <<cfgVars, sem, failed_indices, success_holder, fail_holder,
                   gatherRaised, hist, allBlocked, clearedNonzero, bodyVars,
                   fastBlocked>>

\* ------------------------------------------------------------ specification
Next ==
    \/ \E i \in Pubs : FastStart(i)
    \/ \E i \in Pubs, r \in Responses : FastRespond(i, r)
    \/ \E i \in Pubs : FastWake(i)
    \/ FastFinish
    \/ HeavyImportFails
    \/ HeavyLaunchRaises
    \/ \E i \in Pubs : HeavyStart(i)
    \/ \E i \in Pubs, ok \in BOOLEAN : HeavyPage(i, ok)
    \/ \E i \in Pubs, out \in DriverOutcomes : HeavyRespond(i, out)
    \/ \E i \in Pubs, ok \in BOOLEAN : HeavyClose(i, ok)
    \/ HeavyFinish
    \/ \E out \in DriverOutcomes : SeqDriver(out)
    \/ \E r \in Responses : SeqRespond(r)
    \/ SeqWake

Spec == Init /\ [][Next]_vars

\* The steps of asyncio.run(self._fetch_all_details_async(publications)).  The
\* event loop runs every task that is ready, a request made with timeout=10
\* is answered or raises, and asyncio.sleep returns: a step of the fast tier
\* that stays possible is eventually taken.
FastTierStep ==
    \/ \E i \in Pubs : FastStart(i)
    \/ \E i \in Pubs, r \in Responses : FastRespond(i, r)
    \/ \E i \in Pubs : FastWake(i)
    \/ FastFinish

SpecLive == Spec /\ WF_vars(FastTierStep)

\* ------------------------------ the tiers under any --concurrency value
\* `scraper.concurrency = args.concurrency`: argparse's type=int accepts every
\* integer and main passes it on as it is
ConcurrencyArgs == (0 - 1)..MaxConcurrency

InitAnyConcurrency == InitWith(ConcurrencyArgs)

AllIndices == [k \in 1..NPubs |-> k]

\* asyncio.Semaphore(self.concurrency) raises ValueError for a negative value
\* before a worker task exists: asyncio.run raises, the except branch takes
\* failed_indices = list(range(len(publications))), the count finds no index
\* outside failed_indices and the fallback for all of them is picked.
FastSemaphoreRaises ==
    /\ phase = "fast"
    /\ concurrency < 0
    /\ failed_indices' = AllIndices
    /\ successful' = 0
    /\ IF driver = "playwright"
       THEN /\ phase' = "heavy"
            /\ pc' = [i \in Pubs |-> "idle"]
            /\ sem' = HeavyCeiling
            /\ UNCHANGED seqPos
       ELSE /\ phase' = "seq"
            /\ seqPos' = 1
            /\ pc' = [i \in Pubs |-> "idle"]
            /\ UNCHANGED sem
    /\ fastBlocked' = FALSE
    /\ allBlocked' = FALSE
    /\ UNCHANGED <<cfgVars, publications, attempt, proxy, failed, success_holder,
                   fail_holder, gatherRaised, seqReason, blockVars, hist, resolvers,
                   requests, fetchResult, clearedNonzero, unrecorded, bodyVars,
                   delays>>

NextAnyConcurrency == Next \/ FastSemaphoreRaises

\* the fairness of SpecLive, for a fast tier that may also end by the
\* semaphore's ValueError
SpecAnyConcurrency ==
    /\ InitAnyConcurrency
    /\ [][NextAnyConcurrency]_vars
    /\ WF_vars(FastTierStep \/ FastSemaphoreRaises)


\* ------------------------------------------------------------------- claims
\* workers between acquiring and releasing the tier's semaphore
Inside == {i \in Pubs : /\ phase \in {"fast", "heavy"}
                        /\ pc[i] \in {"get", "sleep", "page", "goto", "close"}}

\* C1: in the fast tier and in the Playwright tier no more than
\* self.concurrency workers are inside the semaphore-guarded section at once,
\* and the free permits account for exactly the workers inside.
C1_PoolBound ==
    /\ Cardinality(Inside) <= concurrency
    /\ phase \in {"fast", "heavy"} => sem + Cardinality(Inside) = concurrency

\* the pool is full while another worker waits for a permit
C1_Witness ==
    /\ phase = "fast"
    /\ Cardinality(Inside) = concurrency
    /\ \E i \in Pubs : pc[i] = "idle" /\ HasUrl(i)

\* C2 (as claimed): each target is resolved by at most one tier; a target the
\* fast tier resolved is never fetched by a later tier, and a target the
\* Playwright tier resolved is never fetched by the sequential tier.
C2_OneTier ==
    \A i \in Pubs :
        /\ Cardinality(resolvers[i]) <= 1
        /\ "fast" \in resolvers[i] => hist[i] = <<"fast">>
        /\ "heavy" \in resolvers[i] => ~InSeq(hist[i], "seq")

RECURSIVE SumOver(_, _)
SumOver(f, S) ==
    IF S = {} THEN 0
    ELSE LET x == CHOOSE y \in S : TRUE IN f[x] + SumOver(f, S \ {x})

\* requests of the running or last httpx fetch of target i that were answered
Answered == [i \in Pubs |-> IF pc[i] = "get" THEN requests[i] - 1 ELSE requests[i]]

\* C3: one httpx fetch sends at most max_retries requests; a fetch that
\* returns None has sent exactly max_retries; and while every answer is a
\* block page _block_count equals the number of answers received.
C3_AttemptBudget ==
    /\ \A i \in Pubs : requests[i] <= max_retries
    /\ \A i \in Pubs : fetchResult[i] = "none" => requests[i] = max_retries
    /\ (phase = "fast" /\ allBlocked) => _block_count = SumOver(Answered, Pubs)

\* a fetch against an endpoint that only ever answers with block pages has
\* returned None
C3_Witness ==
    /\ phase = "fast"
    /\ allBlocked
    /\ \E i \in Pubs : fetchResult[i] = "none" /\ requests[i] = max_retries
    /\ _block_count >= max_retries

\* C4: a step in which an httpx fetch returns a body (HTTP 200, clean, not
\* empty) ends with _block_count = 0 and _blocked_reason = None.
C4_CleanFetchResets ==
    [][ (\E i \in Pubs : fetchResult[i] # "body" /\ fetchResult'[i] = "body")
          => (_block_count' = 0 /\ _blocked_reason' = None) ]_vars

\* a clean body has arrived while _block_count was positive
C4_Witness ==
    /\ clearedNonzero
    /\ _block_count = 0
    /\ \E i \in Pubs : fetchResult[i] = "body"

\* C5 (as claimed): every block classification and every 429 is matched by
\* exactly one _record_block call: never more calls than detections, and none
\* missing once the run is over.
C5_EveryDetectionRecorded ==
    /\ unrecorded >= 0
    /\ phase = "done" => unrecorded = 0

\* targets whose driver page was flagged in the sequential tier and whose
\* httpx fallback has not returned None
Rescuable == {i \in Pubs : InSeq(hist[i], "httpx") /\ fetchResult[i] # "none"}

\* C5 (amended): in the fast and the Playwright tier every detection is
\* recorded once, at once; in the sequential tier the detection on the driver
\* page is recorded only when the httpx fallback returns None, so the
\* detections never recorded are exactly those of the targets the fallback
\* rescued (or is still working on).
C5_DetectionRecordedUnlessRescued ==
    /\ unrecorded >= 0
    /\ unrecorded = Cardinality(Rescuable)
    /\ phase \in {"fast", "heavy"} => unrecorded = 0

\* the run is over, blocks were recorded, and one flagged driver page was
\* rescued by the fallback and never recorded
C5_Witness ==
    /\ phase = "done"
    /\ unrecorded = 1
    /\ \E i \in Pubs : InSeq(hist[i], "httpx") /\ fetchResult[i] = "body"

TierRank(t) == CASE t = "fast" -> 1 [] t = "heavy" -> 2 [] t = "seq" -> 3
                 [] t = "httpx" -> 4

\* the mechanisms were applied in the order fast, heavy, sequential, each at
\* most once
TierOrdered(h) == \A k, l \in 1..Len(h) : k < l => TierRank(h[k]) < TierRank(h[l])

\* C9 (as claimed): fixed tier order, each tier at most once per target, and
\* no httpx fetch for a target after it entered the Playwright or the
\* sequential tier.
C9_NoHttpxAfterEscalation ==
    \A i \in Pubs : TierOrdered(hist[i]) /\ ~InSeq(hist[i], "httpx")

\* C9 (amended): fixed tier order, each tier at most once per target; the
\* httpx fetcher runs again for an escalated target only as the fallback of
\* its sequential attempt, at most once, directly after that attempt's driver
\* page, and only when use_httpx is set.
C9_TierOrder ==
    \A i \in Pubs :
        /\ TierOrdered(hist[i])
        /\ \A k \in 1..Len(hist[i]) :
              hist[i][k] = "httpx" => /\ use_httpx
                                      /\ k > 1
                                      /\ hist[i][k - 1] = "seq"

\* a target went through all three tiers and the sequential tier's fallback
C9_Witness == \E i \in Pubs : hist[i] = <<"fast", "heavy", "seq", "httpx">>

FailedSet == {i \in Pubs : InSeq(failed_indices, i)}

\* targets the Playwright tier fetched without resolving them
HeavyUnresolved == {i \in Pubs : InSeq(hist[i], "heavy") /\ "heavy" \notin resolvers[i]}

RowKinds ==
    { [name |-> TRUE, id |-> "idA"], [name |-> TRUE, id |-> "idB"],
      [name |-> TRUE, id |-> ""], [name |-> FALSE, id |-> "idA"] }

RECURSIVE LoadFrom(_, _)
LoadFrom(rs, k) ==
    IF k > Len(rs) THEN <<>>
    ELSE (IF rs[k].name /\ rs[k].id # "" THEN <<rs[k].id>> ELSE <<>>)
         \o LoadFrom(rs, k + 1)

\* load_authors_from_csv: the rows with a name and an id, in file order
load_authors_from_csv(rs) == LoadFrom(rs, 1)

Jobs == 1..Len(authors)

\* how one job can end: data scraped and saved, data scraped but save_to_json
\* raised, scrape_profile returned nothing ([] or None), or it raised
Outcomes == {"saved", "savefail", "empty", "raised"}

\* the value the job stores: True only after a successful save
JobOk(o) == o = "saved"

\* results[user_id] = ok
StoreResultOnlySuccess(res, uid, ok) ==
    IF ok THEN [u \in DOMAIN res \cup {uid} |-> IF u = uid THEN ok ELSE res[u]]
    ELSE res

StoreResult(res, uid, ok) ==
    [u \in DOMAIN res \cup {uid} |-> IF u = uid THEN ok ELSE res[u]]

\* _fetch_details_concurrently has not been called
RunIdle ==
    /\ publications = [i \in Pubs |-> [url |-> "url", title |-> "stub"]]
    /\ publications0 = publications
    /\ phase = "idle"
    /\ pc = [i \in Pubs |-> "idle"]
    /\ attempt = [i \in Pubs |-> 0]
    /\ proxy = [i \in Pubs |-> None]
    /\ sem = 1
    /\ failed_indices = <<>>
    /\ successful = 0
    /\ failed = 0
    /\ success_holder = 0
    /\ fail_holder = 0
    /\ gatherRaised = FALSE
    /\ seqPos = 1
    /\ seqReason = None
    /\ hist = [i \in Pubs |-> <<>>]
    /\ resolvers = [i \in Pubs |-> {}]
    /\ requests = [i \in Pubs |-> 0]
    /\ fetchResult = [i \in Pubs |-> "pending"]
    /\ allBlocked = TRUE
    /\ clearedNonzero = FALSE
    /\ unrecorded = 0
    /\ fetchBody = [i \in Pubs |-> EmptyBody]
    /\ lastClean = [i \in Pubs |-> EmptyBody]
    /\ delays = 0
    /\ fastBlocked = FALSE

\* the fetch machinery of the instance is not modelled inside a batch: what
\* scrape_profile does to a BlockState is a sequence of _record_block and
\* _clear_block calls
FetchIdle ==
    /\ driver = "selenium"
    /\ use_httpx = TRUE
    /\ proxies = FALSE
    /\ concurrency = 1
    /\ RunIdle

\* process_authors_batch after load_authors_from_csv, on a scraper whose
\* block state is as constructed
InitBatch ==
    /\ FetchIdle
    /\ SideIdle
    /\ _block_count = 0
    /\ _blocked_reason = None
    /\ rows \in [Rows -> RowKinds]
    /\ authors = load_authors_from_csv(rows)
    /\ author_concurrency \in 1..MaxAuthorConcurrency
    /\ pause_on_block \in (IF author_concurrency <= 1 THEN BOOLEAN ELSE {TRUE})
    /\ block_retry_limit \in (IF author_concurrency <= 1 THEN 1..MaxBlockLimit ELSE {1})
    /\ results = EmptyResults
    /\ bpc = IF authors = <<>> THEN "done"
             ELSE IF author_concurrency <= 1 THEN "scrape" ELSE "pool"
    /\ jobIdx = 1
    /\ events = [j \in Rows |-> 0]
    /\ jpc = [j \in Rows |-> IF author_concurrency > 1 /\ j <= Len(authors)
                            THEN "queued" ELSE "none"]
    /\ outcome = [j \in Rows |-> "pending"]
    /\ child = [j \in Rows |-> FreshBlockState]
    /\ pauses = 0
    /\ clock = 0
    /\ startAt = [j \in Rows |-> 0]
    /\ equalT = TRUE

\* ---- sequential mode (author_concurrency <= 1): self.scrape_profile
\* scrape_profile records a block on this instance
BatchScrapeBlock ==
    /\ bpc = "scrape"
    /\ events[jobIdx] < MaxScrapeEvents
    /\ events' = [events EXCEPT ![jobIdx] = @ + 1]
    /\ SetBlockState(_record_block(BlockState, "captcha challenge"))
    /\ UNCHANGED <<fetchVars, rows, authors, author_concurrency, pause_on_block,
                   block_retry_limit, results, bpc, jobIdx, jpc, outcome, child,
                   pauses, timeVars>>

\* scrape_profile clears the block state of this instance (a clean fetch)
BatchScrapeClear ==
    /\ bpc = "scrape"
    /\ events[jobIdx] < MaxScrapeEvents
    /\ events' = [events EXCEPT ![jobIdx] = @ + 1]
    /\ SetBlockState(_clear_block(BlockState))
    /\ UNCHANGED <<fetchVars, rows, authors, author_concurrency, pause_on_block,
                   block_retry_limit, results, bpc, jobIdx, jpc, outcome, child,
                   pauses, timeVars>>

\* the try block of the loop body ends: the result is stored (and the
\* inter-author delay is slept when another author follows)
BatchJobReturn(o) ==
    /\ bpc = "scrape"
    /\ outcome' = [outcome EXCEPT ![jobIdx] = o]
    /\ results' = StoreResult(results, authors[jobIdx], JobOk(o))
    /\ bpc' = "check"
    /\ events' = [events EXCEPT ![jobIdx] = 0]
    /\ UNCHANGED <<fetchVars, blockVars, rows, authors, author_concurrency,
                   pause_on_block, block_retry_limit, jobIdx, jpc, child,
                   pauses, timeVars>>

\* `self._block_count >= self.block_retry_limit and self.pause_on_block`
PauseDueStrict == _block_count > block_retry_limit /\ pause_on_block

\* a test that leaves out `and self.pause_on_block`
PauseDueIgnoresFlag == _block_count >= block_retry_limit

PauseDue == _block_count >= block_retry_limit /\ pause_on_block

\* the loop moves to the next author, or ends
BatchNextJob ==
    IF jobIdx = Len(authors)
    THEN bpc' = "done" /\ UNCHANGED jobIdx
    ELSE bpc' = "scrape" /\ jobIdx' = jobIdx + 1

\* the persistent-block test after the job: either time.sleep starts or the
\* loop goes on
BatchCheck ==
    /\ bpc = "check"
    /\ IF PauseDue
       THEN /\ bpc' = "pause"
            /\ pauses' = pauses + 1
            /\ UNCHANGED jobIdx
       ELSE /\ BatchNextJob
            /\ UNCHANGED pauses
    /\ UNCHANGED <<fetchVars, blockVars, rows, authors, author_concurrency,
                   pause_on_block, block_retry_limit, results, events, jpc, outcome,
                   child, timeVars>>

\* a pause that goes on to the next author without clearing the block state
BatchResumeKeepsBlocks ==
    /\ bpc = "pause"
    /\ BatchNextJob
    /\ UNCHANGED <<fetchVars, blockVars, rows, authors, author_concurrency,
                   pause_on_block, block_retry_limit, results, events, jpc, outcome,
                   child, pauses, timeVars>>

\* time.sleep(self.blocked_pause_seconds) returns: _clear_block, next author
BatchResume ==
    /\ bpc = "pause"
    /\ SetBlockState(_clear_block(BlockState))
    /\ BatchNextJob
    /\ UNCHANGED <<fetchVars, rows, authors, author_concurrency, pause_on_block,
                   block_retry_limit, results, events, jpc, outcome, child, pauses, timeVars>>

\* ---- parallel mode (author_concurrency > 1): ThreadPoolExecutor, _worker
Running == {j \in Jobs : jpc[j] = "running"}

\* a pool of one thread
ThreadFreeSerial == Running = {}

\* ThreadPoolExecutor(max_workers=author_concurrency): a thread is idle, or
\* can still be created
ThreadFree == Cardinality(Running) < author_concurrency

\* a job is queued and a thread can take it
StartPossible == ThreadFree /\ \E j \in Jobs : jpc[j] = "queued"

\* one unit of time passes while jobs run.  Taking a queued job costs a free
\* thread no time, so none passes while a start is possible.
PoolTick ==
    /\ bpc = "pool"
    /\ Running # {}
    /\ ~StartPossible
    /\ clock < MaxClock
    /\ clock' = clock + 1
    /\ UNCHANGED <<fetchVars, blockVars, rows, authors, author_concurrency,
                   pause_on_block, block_retry_limit, results, bpc, jobIdx, events,
                   jpc, outcome, child, pauses, startAt, equalT>>

\* a pool thread takes the oldest queued job; _worker constructs its scraper
PoolStart(j) ==
    /\ bpc = "pool"
    /\ j \in Jobs
    /\ jpc[j] = "queued"
    /\ \A k \in Jobs : k < j => jpc[k] # "queued"
    /\ ThreadFree
    /\ jpc' = [jpc EXCEPT ![j] = "running"]
    /\ child' = [child EXCEPT ![j] = FreshBlockState]
    /\ startAt' = [startAt EXCEPT ![j] = clock]
    /\ UNCHANGED <<fetchVars, blockVars, rows, authors, author_concurrency,
                   pause_on_block, block_retry_limit, results, bpc, jobIdx, events,
                   outcome, pauses, clock, equalT>>

\* the bug `self.scrape_profile(user_id)`: the block lands on the parent
PoolScrapeBlockOnParent(j) ==
    /\ bpc = "pool"
    /\ j \in Jobs
    /\ jpc[j] = "running"
    /\ events[j] < MaxScrapeEvents
    /\ events' = [events EXCEPT ![j] = @ + 1]
    /\ SetBlockState(_record_block(BlockState, "captcha challenge"))
    /\ UNCHANGED <<fetchVars, rows, authors, author_concurrency, pause_on_block,
                   block_retry_limit, results, bpc, jobIdx, jpc, outcome, child,
                   pauses, timeVars>>

\* child.scrape_profile records a block on the job's own scraper
PoolScrapeBlock(j) ==
    /\ bpc = "pool"
    /\ j \in Jobs
    /\ jpc[j] = "running"
    /\ events[j] < MaxScrapeEvents
    /\ events' = [events EXCEPT ![j] = @ + 1]
    /\ child' = [child EXCEPT ![j] = _record_block(@, "captcha challenge")]
    /\ UNCHANGED <<fetchVars, blockVars, rows, authors, author_concurrency,
                   pause_on_block, block_retry_limit, results, bpc, jobIdx, jpc,
                   outcome, pauses, timeVars>>

\* child.scrape_profile clears the block state of the job's own scraper
PoolScrapeClear(j) ==
    /\ bpc = "pool"
    /\ j \in Jobs
    /\ jpc[j] = "running"
    /\ events[j] < MaxScrapeEvents
    /\ events' = [events EXCEPT ![j] = @ + 1]
    /\ child' = [child EXCEPT ![j] = _clear_block(@)]
    /\ UNCHANGED <<fetchVars, blockVars, rows, authors, author_concurrency,
                   pause_on_block, block_retry_limit, results, bpc, jobIdx, jpc,
                   outcome, pauses, timeVars>>

\* _worker returns (user_id, ok): its scraper is dropped and its thread is
\* free for the next job
PoolJobReturn(j, o) ==
    /\ bpc = "pool"
    /\ j \in Jobs
    /\ jpc[j] = "running"
    /\ jpc' = [jpc EXCEPT ![j] = "finished"]
    /\ outcome' = [outcome EXCEPT ![j] = o]
    /\ events' = [events EXCEPT ![j] = 0]
    /\ child' = [child EXCEPT ![j] = FreshBlockState]
    /\ equalT' = (equalT /\ clock = startAt[j] + 1)
    /\ startAt' = [startAt EXCEPT ![j] = 0]
    /\ UNCHANGED <<fetchVars, blockVars, rows, authors, author_concurrency,
                   pause_on_block, block_retry_limit, results, bpc, jobIdx,
                   pauses, clock>>

\* as_completed yields a finished future: results[uid] = ok; after the last
\* one the executor is left
PoolCollect(j) ==
    /\ bpc = "pool"
    /\ j \in Jobs
    /\ jpc[j] = "finished"
    /\ jpc' = [jpc EXCEPT ![j] = "collected"]
    /\ results' = StoreResult(results, authors[j], JobOk(outcome[j]))
    /\ bpc' = IF \A k \in Jobs \ {j} : jpc[k] = "collected" THEN "done" ELSE "pool"
    /\ UNCHANGED <<fetchVars, blockVars, rows, authors, author_concurrency,
                   pause_on_block, block_retry_limit, jobIdx, events, outcome, child,
                   pauses, timeVars>>

NextBatch ==
    \/ BatchScrapeBlock
    \/ BatchScrapeClear
    \/ \E o \in Outcomes : BatchJobReturn(o)
    \/ BatchCheck
    \/ BatchResume
    \/ \E j \in Rows : PoolStart(j)
    \/ PoolTick
    \/ \E j \in Rows : PoolScrapeBlock(j)
    \/ \E j \in Rows : PoolScrapeClear(j)
    \/ \E j \in Rows, o \in Outcomes : PoolJobReturn(j, o)
    \/ \E j \in Rows : PoolCollect(j)

SpecBatch == InitBatch /\ [][NextBatch]_vars

\* ------------------------------------------------ claims on the batch
AuthorIds == {authors[j] : j \in Jobs}

\* C6: in sequential mode the scheduler, after a job, starts the pause exactly
\* when _block_count >= block_retry_limit and pause_on_block holds; the step
\* that ends the pause leaves _block_count = 0 and _blocked_reason = None and
\* goes on with the next author if one remains; and when the batch is done
\* every job has run.
C6_PauseExactlyWhenDue ==
    /\ [][ /\ bpc = "check" =>
                ((bpc' = "pause") <=>
                    (_block_count >= block_retry_limit /\ pause_on_block))
           /\ pauses' # pauses => (bpc = "check" /\ bpc' = "pause"
                                    /\ pauses' = pauses + 1)
           /\ bpc = "pause" =>
                /\ _block_count' = 0
                /\ _blocked_reason' = None
                /\ IF jobIdx < Len(authors)
                   THEN bpc' = "scrape" /\ jobIdx' = jobIdx + 1
                   ELSE bpc' = "done"
         ]_vars
    /\ [](bpc = "done" /\ author_concurrency <= 1 =>
            \A j \in Jobs : outcome[j] # "pending")

\* Scenario F: limit 1, the first job recorded a block, the scheduler paused
\* once and now runs the second job with a reset block state
C6_Witness ==
    /\ author_concurrency <= 1
    /\ block_retry_limit = 1
    /\ pauses = 1
    /\ bpc = "scrape"
    /\ jobIdx = 2
    /\ _block_count = 0
    /\ _blocked_reason = None

\* C7: when the batch returns, in either mode, every job has run, the map has
\* exactly the user ids of the loaded authors as keys, a True entry belongs to
\* a job of that id that scraped and saved, a False entry to a job of that id
\* that raised, returned nothing or failed to save; for an id that one job
\* has, the entry is True iff that job scraped and saved.
C7_OneEntryPerAuthor ==
    bpc = "done" =>
        /\ \A j \in Jobs : outcome[j] # "pending"
        /\ DOMAIN results = AuthorIds
        /\ \A u \in DOMAIN results :
              \E j \in Jobs : authors[j] = u /\ results[u] = JobOk(outcome[j])
        /\ \A j \in Jobs :
              (\A k \in Jobs : authors[k] = authors[j] => k = j)
                  => results[authors[j]] = JobOk(outcome[j])

\* a finished batch over a file with a row that is not a job, in which one job
\* raised and another one saved
C7_Witness ==
    /\ bpc = "done"
    /\ Len(authors) = 2
    /\ \E r \in Rows : rows[r].id = "" \/ ~rows[r].name
    /\ \E j, k \in Jobs :
          /\ outcome[j] = "raised" /\ results[authors[j]] = FALSE
          /\ outcome[k] = "saved" /\ results[authors[k]] = TRUE

\* C8: in parallel mode a job's scraper starts with the constructed block
\* state, and no step changes the block state of the parent, nor the block
\* states of two jobs at once, nor the block state of a job that is not
\* running.
C8_WorkerBlockStateIsolated ==
    [][ bpc = "pool" =>
          /\ _block_count' = _block_count
          /\ _blocked_reason' = _blocked_reason
          /\ \A j \in Jobs :
                /\ (jpc[j] = "queued" /\ jpc'[j] = "running")
                      => child'[j] = FreshBlockState
                /\ child'[j] # child[j] =>
                      /\ jpc[j] = "running"
                      /\ \A k \in Jobs \ {j} : child'[k] = child[k]
      ]_vars

\* two jobs run at once; one has recorded a block, the other and the parent
\* have none
C8_Witness ==
    /\ bpc = "pool"
    /\ \E j, k \in Jobs :
          /\ j # k
          /\ jpc[j] = "running" /\ jpc[k] = "running"
          /\ child[j].count > 0
          /\ child[k].count = 0
    /\ _block_count = 0

\* ------------------------------------------- claims on the fetch tiers (2)
\* the Playwright tier was entered and left without starting a worker: the
\* import of its async API failed
HeavySkipped ==
    /\ phase = "done"
    /\ driver = "playwright"
    /\ \E i \in FailedSet : pc[i] = "idle"

C12_RecoversOnClean200 ==
    /\ [](\A i \in Pubs :
            /\ lastClean[i] # EmptyBody =>
                  /\ fetchResult[i] = "body"
                  /\ fetchBody[i] = lastClean[i]
                  /\ pc[i] \notin {"get", "sleep"}
                  /\ requests[i] <= max_retries
            /\ fetchResult[i] = "none" =>
                  /\ lastClean[i] = EmptyBody
                  /\ requests[i] = max_retries)
    /\ [][ \A i \in Pubs :
             /\ (lastClean[i] = EmptyBody /\ lastClean'[i] # EmptyBody) =>
                   /\ _block_count' = 0
                   /\ _blocked_reason' = None
                   /\ requests'[i] = requests[i]
             /\ (lastClean[i] # EmptyBody /\ lastClean'[i] = lastClean[i]) =>
                   requests'[i] = requests[i]
         ]_vars

\* the first fetch of the run, alone in the pool, was answered with max_retries
\* - 1 answers that recorded a block or a 429 and then with a clean body, which
\* it returned
C12_Witness ==
    /\ phase = "fast"
    /\ clearedNonzero
    /\ fetchResult[1] = "body"
    /\ requests[1] = max_retries
    /\ fetchBody[1] = CleanBody("title")
    /\ \A j \in Pubs \ {1} : pc[j] = "idle"
    /\ _block_count = 0
    /\ _blocked_reason = None

\* C13: the first request of every httpx fetch is sent without a proxy; with a
\* proxy pool every later request of the fetch is sent through a proxy of the
\* pool, and without a pool every request is direct.  (requests[i] counts the
\* requests of the fetch, proxy[i] is the proxy of the latest one.)
C13_DirectFirstThenProxy ==
    \A i \in Pubs :
        requests[i] >= 1 =>
            proxy[i] = (IF proxies /\ requests[i] > 1 THEN "pooled" ELSE None)

\* Scenario D: with a pool, the direct request was answered by a 429 or a block
\* page and the second request, sent through a proxy, by a clean body, which
\* the fetch returned
C13_Witness ==
    /\ proxies
    /\ phase = "fast"
    /\ clearedNonzero
    /\ \A j \in Pubs \ {1} : pc[j] = "idle"
    /\ requests[1] = 2
    /\ proxy[1] = "pooled"
    /\ fetchResult[1] = "body"
    /\ fetchBody[1] = CleanBody("title")

\* C14 (as claimed): when the fast tier has resolved every publication from a
\* clean body with parseable fields, the run returns successful = N and
\* failed = 0 and no target was fetched by the Playwright or the sequential
\* tier.
C14_AllCleanAllSuccessful ==
    (phase = "done" /\ use_httpx /\ \A i \in Pubs : "fast" \in resolvers[i]) =>
        /\ successful = NPubs
        /\ failed = 0
        /\ \A i \in Pubs : hist[i] = <<"fast">>


\* targets no tier has resolved
Unresolved == {i \in Pubs : resolvers[i] = {}}

\* C15: a record no tier resolved is the record handed in; a step changes a
\* record only while a tier resolves it, by putting a parsed title in place of
\* the title, and never writes the placeholder 'N/A'; a target whose fast-tier
\* body was clean without a parseable field is marked for fallback with its
\* record untouched; and when the run returns every unresolved target is in
\* the failed count.
C15_UnresolvedRecordUntouched ==
    /\ [](/\ \A i \in Unresolved : publications[i] = publications0[i]
          /\ \A i \in Pubs :
                (phase = "fast" /\ lastClean[i] # EmptyBody
                   /\ lastClean[i].fields = "none") =>
                      (i \in FailedSet /\ i \in Unresolved)
          /\ phase = "done" => failed >= Cardinality(Unresolved))
    /\ [][ \A i \in Pubs :
             /\ publications'[i] # publications[i] =>
                   /\ resolvers'[i] # resolvers[i]
                   /\ publications'[i] = [publications[i] EXCEPT !.title = "parsed"]
             /\ publications'[i].title = "N/A" => publications[i].title = "N/A"
         ]_vars

\* Scenario B: the fast-tier bodies had no parseable field, no Playwright tier,
\* the driver attempts failed: nothing successful, every target failed, the
\* records as handed in
C15_Witness ==
    /\ phase = "done"
    /\ use_httpx
    /\ driver = "selenium"
    /\ \A i \in Pubs : hist[i] = <<"fast", "seq">> /\ resolvers[i] = {}
    /\ successful = 0
    /\ failed = NPubs
    /\ publications = publications0
    /\ \E i \in Pubs : publications[i].title = "stub"


\* no index occurs twice in q
NoDuplicates(q) == \A k, l \in 1..Len(q) : q[k] = q[l] => k = l

\* C16: while the fast tier runs, a worker that has finished has put its index
\* in exactly one of the two sets (resolved by the fast tier, failed_indices),
\* a worker that has not finished is in neither, failed_indices has no index
\* twice, and some worker can always take a step (none waits for a permit
\* that is never released); _fetch_all_details_async returns only when every
\* worker has finished, with every index in exactly one of the two sets.
C16_EveryWorkerCompletes ==
    /\ [](phase = "fast" =>
            /\ NoDuplicates(failed_indices)
            /\ \A i \in Pubs :
                  /\ pc[i] = "done" => ("fast" \in resolvers[i]) # (i \in FailedSet)
                  /\ pc[i] # "done" => ("fast" \notin resolvers[i] /\ i \notin FailedSet)
            /\ \/ \A i \in Pubs : pc[i] = "done"
               \/ \E i \in Pubs : pc[i] \in {"get", "sleep"}
               \/ \E i \in Pubs : pc[i] = "idle" /\ sem > 0)
    /\ [][ (phase = "fast" /\ phase' # "fast") =>
              /\ NoDuplicates(failed_indices')
              /\ \A i \in Pubs :
                    /\ pc[i] = "done"
                    /\ ("fast" \in resolvers'[i]) # (i \in {failed_indices'[k] :
                                                           k \in 1..Len(failed_indices')})
         ]_vars

\* two workers ran interleaved; the tier has returned with one index resolved
\* and the other in failed_indices
C16_Witness ==
    /\ HeavyNotStarted
    /\ concurrency = 2
    /\ "fast" \in resolvers[1]
    /\ failed_indices = <<2>>
    /\ hist[2] = <<"fast">>


\* C17 (as claimed): for every list of targets and every driver setting
\* _fetch_details_concurrently returns its pair of counts and never raises.
C17_NeverRaises == phase # "raised"


\* C18: _block_count is a natural number, and every step leaves it as it is,
\* adds exactly one to it (setting a reason) or sets it to zero (with the
\* reason None); it never goes down to a value other than zero.
C18_CountStepsByOneOrResets ==
    /\ [](_block_count \in Nat)
    /\ [][ \/ _block_count' = _block_count
           \/ _block_count' = _block_count + 1 /\ _blocked_reason' # None
           \/ _block_count' = 0 /\ _blocked_reason' = None
         ]_vars

\* the count was reset from a positive value and a block was recorded again
C18_Witness ==
    /\ phase = "fast"
    /\ clearedNonzero
    /\ _block_count = 1
    /\ _blocked_reason # None


\* the number of rounds of author_concurrency jobs that the jobs fill
Rounds == (Len(authors) + author_concurrency - 1) \div author_concurrency

\* C19: in parallel mode no more than author_concurrency jobs are in progress
\* at once; no time passes while a job waits and fewer than author_concurrency
\* jobs are in progress; and when every job has taken exactly one unit T, the
\* last job returns at time Rounds * T (2T for 3 jobs with author_concurrency
\* = 2).
C19_PoolBoundAndRounds ==
    /\ [](bpc = "pool" => Cardinality(Running) <= author_concurrency)
    /\ [][ clock' # clock =>
              ~(\E j \in Jobs : jpc[j] = "queued"
                                /\ Cardinality(Running) < author_concurrency) ]_vars
    /\ []((bpc = "done" /\ author_concurrency > 1 /\ equalT) => clock = Rounds)

\* Scenario E: three jobs of duration T with author_concurrency = 2 are done
\* at time 2T
C19_Witness ==
    /\ bpc = "done"
    /\ author_concurrency = 2
    /\ Len(authors) = 3
    /\ equalT
    /\ clock = 2


\* C20 (as claimed): the permits of the Playwright tier (free ones plus the
\* workers holding one) are fewer than the permits of the fast tier of the run.
C20_HeavyCeilingBelowFast ==
    phase = "heavy" => sem + Cardinality(Inside) < FastCeiling

\* C20 (amended): the Playwright tier has exactly as many permits as the fast
\* tier of the run, self.concurrency.
C20_HeavyCeilingEqualsFast ==
    phase = "heavy" => sem + Cardinality(Inside) = FastCeiling

\* the Playwright tier has as many workers in flight as the fast tier allows
C20_Witness ==
    /\ phase = "heavy"
    /\ concurrency = MaxConcurrency
    /\ Cardinality(Inside) = FastCeiling
    /\ sem = 0

\* ------------------------------------ sequential tier: delays, counting
\* targets the sequential tier handled (a loop body ran for them)
SeqHandled == {i \in Pubs : InSeq(hist[i], "seq")}

\* fetches of the sequential tier that are in flight
SeqInFlight == {i \in Pubs : phase \in {"seq", "nohttpx"} /\ pc[i] \in {"get", "sleep"}}

\* C27 (as claimed): the sequential tier has at most one fetch in flight, and
\* a sequential loop that handled k targets has made k - 1 inter-target delays,
\* in the loop over failed_indices as in the loop that runs without httpx.
C27_DelaysOnlyBetweenTargets ==
    /\ Cardinality(SeqInFlight) <= 1
    /\ (phase = "done" /\ SeqHandled # {}) => delays = Cardinality(SeqHandled) - 1

\* C30 (as claimed): when _fetch_details_concurrently returns, successful +
\* failed equals the number of publications: each one is counted once, as a
\* success or as a failure.
C30_CountsSumToN == phase = "done" => successful + failed = NPubs

\* C25 (as claimed): when every answer the fast tier received was a block
\* page and no later tier resolved a target, the run returns successful = 0
\* and failed = N, and _blocked_reason is not None afterwards.
C25_BlockedRunKeepsReason ==
    (phase = "done" /\ fastBlocked /\ \A i \in Pubs : resolvers[i] = {}) =>
        /\ successful = 0
        /\ failed = NPubs
        /\ _blocked_reason # None

\* C25 (amended): while every answer of the fast tier is a block page no
\* record is updated and every index ends in failed_indices; when no later
\* tier resolves a target either, the run returns successful = 0 and
\* failed = N, and _blocked_reason is not None afterwards unless an httpx
\* fallback of the sequential tier returned a clean page, which clears the
\* block state.
C25_BlockedRunCountsFailures ==
    /\ (phase = "fast" /\ allBlocked) =>
           /\ publications = publications0
           /\ \A i \in Pubs : resolvers[i] = {}
    /\ fastBlocked => \A i \in Pubs : InSeq(failed_indices, i)
    /\ (fastBlocked /\ phase # "fast" /\ \A i \in Pubs : resolvers[i] = {}) =>
           successful = 0
    /\ (phase = "done" /\ fastBlocked /\ \A i \in Pubs : resolvers[i] = {}) =>
           /\ failed = NPubs
           /\ (\A i \in Pubs : fetchResult[i] # "body") => _blocked_reason # None

\* the run of test_httpx_blocking_detection: two targets, block pages only,
\* a sequential tier that resolves nothing, (0, 2) returned and the reason set
C25_Witness ==
    /\ phase = "done"
    /\ fastBlocked
    /\ \A i \in Pubs : resolvers[i] = {} /\ InSeq(hist[i], "fast")
    /\ successful = 0
    /\ failed = NPubs
    /\ _blocked_reason = "unusual traffic detected"

\* C24: a run of the fast tier terminates: _fetch_all_details_async returns,
\* and it returns only when every worker has finished and every permit of the
\* semaphore is free again; a request that fails or times out is followed by
\* one more unit of `attempt`, so that no fetch outlives its budget.
C24_FastTierTerminates ==
    /\ (phase = "fast") ~> (phase # "fast")
    /\ [][ (phase = "fast" /\ phase' # "fast") =>
              /\ \A i \in Pubs : pc[i] = "done"
              /\ sem = concurrency ]_vars
    /\ [][ \A i \in Pubs :
              (phase = "fast" /\ pc[i] = "sleep" /\ pc'[i] # "sleep") =>
                  attempt'[i] = attempt[i] + 1 ]_vars

\* every worker of a fast tier with one permit has finished and the permit is
\* free, after a worker used up its whole budget on requests that timed out or
\* failed without a block being recorded
C24_Witness ==
    /\ phase = "fast"
    /\ concurrency = 1
    /\ sem = concurrency
    /\ \A i \in Pubs : pc[i] = "done" /\ InSeq(hist[i], "fast")
    /\ \E i \in Pubs : fetchResult[i] = "none" /\ requests[i] = max_retries
    /\ _block_count = 0

\* ------------------------------- one call of _fetch_detail_via_httpx_async
\* `jitter = random.uniform(0.8, 1.25)`, in hundredths
JitterLow == 80

JitterHigh == 125

Jitters == {JitterLow, 100, JitterHigh}

\* values of self.backoff_factor, in milliseconds
BackoffFactors == {DefaultBackoff, 2 * DefaultBackoff}

RECURSIVE Pow2(_)
Pow2(n) == IF n = 0 THEN 1 ELSE 2 * Pow2(n - 1)

\* a backoff that does not grow with the attempt
SleepTimeFlat(b, att, jitter) == (b * jitter) \div 100

\* `sleep_time = self.backoff_factor * (2 ** attempt) * jitter`, in milliseconds
SleepTime(b, att, jitter) == (b * Pow2(att) * jitter) \div 100

\* why a pass through the loop body did not return
FailureKind(r) ==
    IF r.kind = "exc" THEN "exception"
    ELSE IF r.status = 200 THEN (IF r.text.empty THEN "empty body" ELSE "block page")
    ELSE IF r.status = 429 THEN "429"
    ELSE IF r.status >= 500 /\ r.status < 600 THEN "5xx"
    ELSE "other status"

\* the call of _fetch_detail_via_httpx_async(url) on a scraper whose block
\* state is as constructed: the loop test, then the first request
InitFetch ==
    /\ FetchIdle
    /\ BatchIdle
    /\ ClassifyIdle
    /\ ProfileIdle
    /\ ConfigIdle
    /\ HeavyIdle
    /\ _block_count = 0
    /\ _blocked_reason = None
    /\ backoff_factor \in BackoffFactors
    /\ fattempt = 0
    /\ sleepLog = <<>>
    /\ fpc = IF RetryAllowed(0) THEN "get" ELSE "returned"
    /\ frequests = IF RetryAllowed(0) THEN 1 ELSE 0
    /\ fresult = IF RetryAllowed(0) THEN NoResult ELSE NoneResult

\* the awaited request is answered by r: a clean 200 returns resp.text, any
\* other outcome reaches the backoff, whose jitter is drawn here
FetchRespond(r, jitter) ==
    /\ fpc = "get"
    /\ LET h == HandleResponse(r, BlockState)
       IN  /\ SetBlockState(h.st)
           /\ IF h.ret
              THEN /\ fpc' = "returned"
                   /\ fresult' = [ret |-> "body", text |-> ReturnedText(r),
                                    answer |-> r]
                   /\ UNCHANGED sleepLog
              ELSE /\ fpc' = "sleep"
                   /\ sleepLog' = Append(sleepLog,
                          [attempt |-> fattempt, kind |-> FailureKind(r),
                           jitter |-> jitter,
                           sleep_time |-> SleepTime(backoff_factor, fattempt, jitter)])
                   /\ UNCHANGED fresult
    /\ UNCHANGED <<heavyVars, fattempt, frequests, backoff_factor, fetchCore, batchVars,
                   classifyVars, profileVars, configVars>>

\* asyncio.sleep returns: attempt += 1 and the loop test; the next request
\* goes out or the call returns None
FetchWake ==
    /\ fpc = "sleep"
    /\ fattempt' = fattempt + 1
    /\ IF RetryAllowed(fattempt + 1)
       THEN /\ fpc' = "get"
            /\ frequests' = frequests + 1
            /\ UNCHANGED fresult
       ELSE /\ fpc' = "returned"
            /\ fresult' = NoneResult
            /\ UNCHANGED frequests
    /\ UNCHANGED <<heavyVars, backoff_factor, sleepLog, blockVars, fetchCore, batchVars,
                   classifyVars, profileVars, configVars>>

NextFetch ==
    \/ \E r \in Responses, jitter \in Jitters : FetchRespond(r, jitter)
    \/ FetchWake

SpecFetch == InitFetch /\ [][NextFetch]_vars

\* C28 (as claimed): a fetch that made k attempts has slept k - 1 times when
\* it returns, and every sleep lies before its last attempt.
C28_SleepsOnlyBetweenAttempts ==
    fpc = "returned" =>
        /\ Len(sleepLog) = frequests - 1
        /\ \A k \in 1..Len(sleepLog) : sleepLog[k].attempt < frequests - 1

\* C29: the k-th backoff of a fetch follows attempt k - 1 and lasts
\* backoff_factor * 2^(k-1) * jitter with jitter between 0.8 and 1.25, whatever
\* made the attempt fail; with equal jitter each backoff is twice the one
\* before.
C29_BackoffDoubles ==
    \A k \in 1..Len(sleepLog) :
        LET e == sleepLog[k]
        IN  /\ e.attempt = k - 1
            /\ JitterLow * backoff_factor * Pow2(k - 1) <= 100 * e.sleep_time
            /\ 100 * e.sleep_time <= JitterHigh * backoff_factor * Pow2(k - 1)
            /\ 100 * e.sleep_time = backoff_factor * Pow2(k - 1) * e.jitter
            /\ k > 1 => e.sleep_time * sleepLog[k - 1].jitter
                          = 2 * sleepLog[k - 1].sleep_time * e.jitter

\* a fetch slept after a timeout and then after a 429, with the same jitter,
\* and the second sleep was twice the first
C29_Witness ==
    /\ Len(sleepLog) = 2
    /\ sleepLog[1].kind = "exception"
    /\ sleepLog[2].kind = "429"
    /\ sleepLog[1].jitter = sleepLog[2].jitter
    /\ sleepLog[1].sleep_time = (backoff_factor * sleepLog[1].jitter) \div 100
    /\ sleepLog[2].sleep_time = 2 * sleepLog[1].sleep_time

\* ------------------------- direct calls of _detect_captcha_or_unusual_traffic
\* how a phrase occurs in the argument: not at all, in lower case as the
\* classifier spells it, or with capitals ("Unusual Traffic", "We're Sorry")
Cases == {"absent", "lower", "upper"}

RawBodies ==
    {[empty |-> TRUE, unusual |-> "absent", typechars |-> "absent",
      recaptcha |-> "absent", sorry |-> "absent"]} \cup
    [empty : {FALSE}, unusual : Cases, typechars : Cases, recaptcha : Cases,
     sorry : Cases]

\* str.lower() on an occurrence
LowerCase(c) == IF c = "upper" THEN "lower" ELSE c

\* `txt = html.lower()` followed by the `phrase in txt` tests: the phrases
\* found in the lowered text
Lowered(raw) ==
    [empty |-> raw.empty,
     unusual |-> LowerCase(raw.unusual) = "lower",
     typechars |-> LowerCase(raw.typechars) = "lower",
     recaptcha |-> LowerCase(raw.recaptcha) = "lower",
     sorry |-> LowerCase(raw.sorry) = "lower",
     fields |-> "none"]

\* a classifier that records what it finds
AfterClassifyRecords(st, reason) ==
    IF reason # None THEN _record_block(st, reason) ELSE st

\* the block state after a call: the method assigns no attribute of self
AfterClassify(st, reason) == st

ClassifierReasons == {"unusual traffic detected", "captcha challenge",
                      "blocked - sorry/unusual traffic"}

\* a scraper as constructed, before any call
InitClassify ==
    /\ FetchIdle
    /\ BatchIdle
    /\ SideIdle
    /\ _block_count = 0
    /\ _blocked_reason = None

\* self._detect_captcha_or_unusual_traffic(html)
Classify(raw) ==
    /\ LET reason == _detect_captcha_or_unusual_traffic(Lowered(raw))
       IN  /\ classified' = [html |-> raw, result |-> reason, made |-> TRUE]
           /\ repeatCheck' =
                  IF classified.made /\ classified.html = raw
                  THEN (IF classified.result = reason /\ repeatCheck # "differs"
                        THEN "same" ELSE "differs")
                  ELSE repeatCheck
           /\ SetBlockState(AfterClassify(BlockState, reason))
    /\ UNCHANGED <<heavyVars, fetchCore, batchVars, fetch1Vars, profileVars, configVars>>

\* self._record_block(reason), called between two classifications
CallRecordBlock(reason) ==
    /\ _block_count < MaxBlockCount
    /\ SetBlockState(_record_block(BlockState, reason))
    /\ UNCHANGED <<heavyVars, fetchCore, batchVars, sideVars>>

\* self._clear_block()
CallClearBlock ==
    /\ SetBlockState(_clear_block(BlockState))
    /\ UNCHANGED <<heavyVars, fetchCore, batchVars, sideVars>>

NextClassify ==
    \/ \E raw \in RawBodies : Classify(raw)
    \/ \E reason \in ClassifierReasons \cup {"httpx 429"} : CallRecordBlock(reason)
    \/ CallClearBlock

SpecClassify == InitClassify /\ [][NextClassify]_vars

\* C21 (as claimed): a body that contains both "we're sorry" and "unusual
\* traffic", in any case, is classified 'blocked - sorry/unusual traffic'.
C21_SorryBlockCategory ==
    (/\ classified.made
     /\ classified.html.sorry # "absent"
     /\ classified.html.unusual # "absent")
        => classified.result = "blocked - sorry/unusual traffic"

\* the phrases that make a body a block page on their own: "unusual traffic",
\* a CAPTCHA-challenge phrase, a reCAPTCHA marker ("we're sorry" counts only
\* together with "unusual traffic")
Marked(raw) ==
    /\ ~raw.empty
    /\ \/ raw.unusual # "absent"
       \/ raw.typechars # "absent"
       \/ raw.recaptcha # "absent"

Lines == {"", "  ", "entry-a", " entry-b "}

\* ln.strip()
Strip(ln) ==
    CASE ln = "" -> ""
      [] ln = "  " -> ""
      [] ln = "entry-a" -> "entry-a"
      [] ln = " entry-b " -> "entry-b"

FileLines == UNION {[1..n -> Lines] : n \in 0..MaxLines}

Files == [exists : {TRUE}, lines : FileLines] \cup {MissingFile}

FileArgs == [given : {TRUE}, file : Files] \cup {NoFileArg}

RECURSIVE NonBlankFrom(_, _)
NonBlankFrom(lines, k) ==
    IF k > Len(lines) THEN <<>>
    ELSE (IF Strip(lines[k]) # "" THEN <<Strip(lines[k])>> ELSE <<>>)
         \o NonBlankFrom(lines, k + 1)

\* the list the loaders build: the stripped lines that are not empty
NonBlank(lines) == NonBlankFrom(lines, 1)

\* open() raises for a missing file, the loader raises ValueError for a file
\* without an entry
LoadRaises(f) == ~f.exists \/ NonBlank(f.lines) = <<>>

\* a loader that assigns the list before it looks at it
PoolAfterLoadAssignsFirst(old, f) == IF f.exists THEN NonBlank(f.lines) ELSE old

\* self.user_agents / self.proxies after the call: the assignment comes after
\* the raise
PoolAfterLoad(old, f) == IF LoadRaises(f) THEN old ELSE NonBlank(f.lines)

\* a scraper as constructed, used as a library object before main runs
InitConfig ==
    /\ FetchIdle
    /\ BatchIdle
    /\ Fetch1Idle
    /\ ClassifyIdle
    /\ ProfileIdle
    /\ HeavyIdle
    /\ _block_count = 0
    /\ _blocked_reason = None
    /\ WorkerIdle
    /\ mpc = "library"
    /\ args = NoArgs
    /\ user_agents = <<>>
    /\ proxy_pool = <<>>
    /\ lastLoad = NoLoad
    /\ fetchStarted = FALSE

\* scraper.load_user_agents_from_file(path), path naming f
load_user_agents_from_file(f) ==
    /\ user_agents' = PoolAfterLoad(user_agents, f)
    /\ lastLoad' = [which |-> "user_agents", file |-> f, raised |-> LoadRaises(f)]
    /\ UNCHANGED proxy_pool

\* scraper.load_proxies_from_file(path), path naming f
load_proxies_from_file(f) ==
    /\ proxy_pool' = PoolAfterLoad(proxy_pool, f)
    /\ lastLoad' = [which |-> "proxies", file |-> f, raised |-> LoadRaises(f)]
    /\ UNCHANGED user_agents

\* a caller other than main loads a file into its scraper
CallLoadUserAgents(f) ==
    /\ mpc = "library"
    /\ load_user_agents_from_file(f)
    /\ UNCHANGED <<heavyVars, workerVars, mpc, args, fetchStarted, blockVars, fetchCore, batchVars,
                   fetch1Vars, classifyVars, profileVars>>

CallLoadProxies(f) ==
    /\ mpc = "library"
    /\ load_proxies_from_file(f)
    /\ UNCHANGED <<heavyVars, workerVars, mpc, args, fetchStarted, blockVars, fetchCore, batchVars,
                   fetch1Vars, classifyVars, profileVars>>

\* main parses the command line and constructs its scraper; with
\* --generate-ua-file it writes the file and returns
MainStart(a) ==
    /\ mpc = "library"
    /\ args' = a
    /\ user_agents' = <<>>
    /\ proxy_pool' = <<>>
    /\ lastLoad' = NoLoad
    /\ mpc' = IF a.generate_ua_file THEN "returned" ELSE "user agents"
    /\ UNCHANGED <<heavyVars, workerVars, fetchStarted, blockVars, fetchCore, batchVars, fetch1Vars,
                   classifyVars, profileVars>>

\* `if args.user_agent_file:` with its try / except ... return
MainLoadUserAgents ==
    /\ mpc = "user agents"
    /\ IF args.user_agent_file.given
       THEN /\ load_user_agents_from_file(args.user_agent_file.file)
            /\ mpc' = IF LoadRaises(args.user_agent_file.file)
                      THEN "returned" ELSE "proxies"
       ELSE /\ mpc' = "proxies"
            /\ UNCHANGED <<user_agents, proxy_pool, lastLoad>>
    /\ UNCHANGED <<heavyVars, workerVars, args, fetchStarted, blockVars, fetchCore, batchVars, fetch1Vars,
                   classifyVars, profileVars>>

\* `if args.proxy_file:` with its try / except ... return, `elif args.proxy:`
MainLoadProxies ==
    /\ mpc = "proxies"
    /\ IF args.proxy_file.given
       THEN /\ load_proxies_from_file(args.proxy_file.file)
            /\ mpc' = IF LoadRaises(args.proxy_file.file) THEN "returned" ELSE "run"
       ELSE /\ mpc' = "run"
            /\ proxy_pool' = IF args.proxy # "" THEN <<args.proxy>> ELSE proxy_pool
            /\ UNCHANGED <<user_agents, lastLoad>>
    /\ UNCHANGED <<heavyVars, workerVars, args, fetchStarted, blockVars, fetchCore, batchVars, fetch1Vars,
                   classifyVars, profileVars>>

\* main calls process_authors_batch or scrape_profile
MainRun ==
    /\ mpc = "run"
    /\ mpc' = "fetching"
    /\ fetchStarted' = TRUE
    /\ UNCHANGED <<heavyVars, workerVars, args, user_agents, proxy_pool, lastLoad, blockVars, fetchCore,
                   batchVars, fetch1Vars, classifyVars, profileVars>>

\* the call returns (or its exception is logged) and main ends
MainFinish ==
    /\ mpc = "fetching"
    /\ mpc' = "returned"
    /\ UNCHANGED <<heavyVars, workerVars, args, user_agents, proxy_pool, lastLoad, fetchStarted, blockVars,
                   fetchCore, batchVars, fetch1Vars, classifyVars, profileVars>>

MainArgs == [user_agent_file : FileArgs, proxy_file : FileArgs,
             proxy : {"", "http://proxy"}, generate_ua_file : BOOLEAN]

NextConfig ==
    \/ \E f \in Files : CallLoadUserAgents(f)
    \/ \E f \in Files : CallLoadProxies(f)
    \/ \E a \in MainArgs : MainStart(a)
    \/ MainLoadUserAgents
    \/ MainLoadProxies
    \/ MainRun
    \/ MainFinish

SpecConfig == InitConfig /\ [][NextConfig]_vars

\* a file that exists and has no non-blank line
BlankFile(f) == f.exists /\ \A k \in 1..Len(f.lines) : f.lines[k] \in {"", "  "}

\* C23: a load_user_agents_from_file / load_proxies_from_file call on a file
\* without a non-blank line raises and leaves user_agents and proxies as they
\* were; when it is main that made the call, main returns without starting a
\* fetch.
C23_EmptyCredentialFileIsFatal ==
    /\ [][ (lastLoad' # lastLoad /\ lastLoad'.which # "none"
              /\ BlankFile(lastLoad'.file))
             => /\ lastLoad'.raised
                /\ user_agents' = user_agents
                /\ proxy_pool' = proxy_pool ]_vars
    /\ []((mpc # "library" /\ lastLoad.raised) =>
              (mpc = "returned" /\ ~fetchStarted))

\* main has returned without a fetch: its proxy file held only blank lines,
\* and the user agents it had loaded before are still in place
C23_Witness ==
    /\ mpc = "returned"
    /\ ~fetchStarted
    /\ lastLoad.which = "proxies"
    /\ lastLoad.raised
    /\ BlankFile(lastLoad.file)
    /\ Len(lastLoad.file.lines) = MaxLines
    /\ user_agents = <<"entry-a", "entry-b">>
    /\ proxy_pool = <<>>

\* ------------------- _load_all_publications and _parse_publication_list
\* a scraper whose driver is set up (as scrape_profile leaves it before the
\* load): blank page, empty profile cache, block state as constructed
InitProfile ==
    /\ driver \in {"selenium", "playwright"}
    /\ use_httpx \in BOOLEAN
    /\ proxies = FALSE
    /\ concurrency = 1
    /\ RunIdle
    /\ BatchIdle
    /\ Fetch1Idle
    /\ ClassifyIdle
    /\ ConfigIdle
    /\ HeavyIdle
    /\ _block_count = 0
    /\ _blocked_reason = None
    /\ ppc = "ready"
    /\ driverPage = CleanBody("none")
    /\ block_reason = None
    /\ _profile_html_cache = EmptyBody
    /\ parsed = NotParsed
    /\ parseCalls = 0

\* _load_all_publications(base_url): the driver loads the page and the page
\* is classified.  A flagged page starts the httpx fallback when use_httpx,
\* otherwise the block is recorded; a page that is not flagged leads to the
\* Load More loop (or, for Playwright, to the return at `self.browser is None`)
LoadStart(page) ==
    /\ ppc = "ready"
    /\ _block_count < MaxBlockCount
    /\ driverPage' = page
    /\ LET reason == _detect_captcha_or_unusual_traffic(page)
       IN  IF reason # None /\ use_httpx
           THEN /\ ppc' = "fetching"
                /\ block_reason' = reason
                /\ fpc' = IF RetryAllowed(0) THEN "get" ELSE "returned"
                /\ frequests' = IF RetryAllowed(0) THEN 1 ELSE 0
                /\ fresult' = IF RetryAllowed(0) THEN NoResult
                              ELSE NoneResult
                /\ UNCHANGED blockVars
           ELSE /\ SetBlockState(IF reason # None
                                 THEN _record_block(BlockState, reason)
                                 ELSE BlockState)
                /\ UNCHANGED <<ppc, block_reason, fpc, frequests, fresult>>
    /\ UNCHANGED <<heavyVars, fattempt, backoff_factor, sleepLog, _profile_html_cache, parsed,
                   parseCalls, fetchCore, batchVars, classifyVars, configVars>>

\* the cache after a parse has taken the HTML from it, left as it was
CacheAfterUseKept(cache) == cache

\* `self._profile_html_cache = None` after a parse has taken the HTML from it
CacheAfterUse(cache) == EmptyBody

\* asyncio.run(self._fetch_detail_via_httpx_async(base_url)) has returned:
\* clean HTML goes to the profile cache and the block state is cleared, else
\* the driver's block is recorded
LoadFinish ==
    /\ ppc = "fetching"
    /\ fpc = "returned"
    /\ IF fresult.ret = "body" /\ ~fresult.text.empty
          /\ _detect_captcha_or_unusual_traffic(fresult.text) = None
       THEN /\ _profile_html_cache' = fresult.text
            /\ SetBlockState(_clear_block(BlockState))
       ELSE /\ SetBlockState(_record_block(BlockState, block_reason))
            /\ UNCHANGED _profile_html_cache
    /\ ppc' = "ready"
    /\ block_reason' = None
    /\ fpc' = "idle"
    /\ fattempt' = 0
    /\ frequests' = 0
    /\ sleepLog' = <<>>
    /\ fresult' = NoResult
    /\ UNCHANGED <<heavyVars, backoff_factor, driverPage, parsed, parseCalls, fetchCore,
                   batchVars, classifyVars, configVars>>

\* the `html` argument of _parse_publication_list: absent (None) or a string
ListArgs == [given : {TRUE}, html : RunBodies] \cup {[given |-> FALSE, html |-> EmptyBody]}

\* _parse_publication_list(html): without an argument the cached profile HTML
\* is taken (and the cache emptied) when there is one, else the driver's
\* page; a flagged page is recorded and gives [], any other is parsed
ParseList(arg) ==
    /\ ppc = "ready"
    /\ parseCalls < MaxParseCalls
    /\ parseCalls' = parseCalls + 1
    /\ LET useCache == ~arg.given /\ ~_profile_html_cache.empty
           from == IF arg.given THEN "arg" ELSE IF useCache THEN "cache" ELSE "driver"
           html == IF arg.given THEN arg.html
                   ELSE IF useCache THEN _profile_html_cache ELSE driverPage
           reason == _detect_captcha_or_unusual_traffic(html)
       IN  /\ _profile_html_cache' = IF useCache THEN CacheAfterUse(_profile_html_cache)
                                     ELSE _profile_html_cache
           /\ parsed' = [from |-> from, html |-> html, blocked |-> reason # None]
           /\ SetBlockState(IF reason # None THEN _record_block(BlockState, reason)
                            ELSE BlockState)
    /\ UNCHANGED <<heavyVars, ppc, driverPage, block_reason, fetch1Vars, fetchCore, batchVars,
                   classifyVars, configVars>>

NextProfile ==
    \/ \E page \in RunBodies : LoadStart(page)
    \/ \E r \in Responses, jitter \in Jitters : FetchRespond(r, jitter)
    \/ FetchWake
    \/ LoadFinish
    \/ \E arg \in ListArgs : ParseList(arg)

SpecProfile == InitProfile /\ [][NextProfile]_vars

\* C26: when the driver's profile page is flagged and the httpx fallback
\* returns a clean page, the load stores that HTML in the profile cache and
\* clears the block state; the next _parse_publication_list() call without an
\* argument parses the cached HTML, not the driver's page, and empties the
\* cache; a parse takes its HTML from the cache only when the cache holds
\* one, so each cached page is used once.
C26_ProfileCacheUsedOnce ==
    /\ [][ (ppc = "fetching" /\ ppc' = "ready" /\ fresult.ret = "body")
             => /\ _profile_html_cache' = fresult.text
                /\ _block_count' = 0
                /\ _blocked_reason' = None ]_vars
    /\ [][ (parseCalls' = parseCalls + 1 /\ parsed'.from # "arg")
             => IF ~_profile_html_cache.empty
                THEN /\ parsed'.from = "cache"
                     /\ parsed'.html = _profile_html_cache
                     /\ _profile_html_cache'.empty
                ELSE /\ parsed'.from = "driver"
                     /\ parsed'.html = driverPage
                     /\ _profile_html_cache'.empty ]_vars
    /\ [][ (parseCalls' = parseCalls + 1 /\ parsed'.from = "arg")
             => UNCHANGED _profile_html_cache ]_vars
    /\ [](~_profile_html_cache.empty =>
             _detect_captcha_or_unusual_traffic(_profile_html_cache) = None)

\* the run of test_playwright_block_then_httpx_profile_fallback: the
\* Playwright page is an 'unusual traffic' page, the fallback's HTML was
\* cached, parsed by _parse_publication_list() and the cache is empty again
C26_Witness ==
    /\ driver = "playwright"
    /\ driverPage = BlockBody
    /\ ppc = "ready"
    /\ parseCalls = 1
    /\ parsed = [from |-> "cache", html |-> CleanBody("title"), blocked |-> FALSE]
    /\ _profile_html_cache.empty
    /\ _block_count = 0
    /\ _blocked_reason = None

\* ------------------------------------- claims on one httpx fetch (2)
\* the failures that are neither a block page nor a 429
QuietKinds == {"exception", "empty body", "5xx", "other status"}

\* C31: in _fetch_detail_via_httpx_async an attempt that ends in a transport
\* exception or timeout, an HTTP 5xx, a 200 with an empty body or any other
\* non-200, non-429 status leaves _block_count and _blocked_reason as they
\* were and goes to the backoff; the wake-up after a backoff adds exactly one
\* to `attempt`, so every failed attempt uses up one of the max_retries.
C31_QuietFailureKeepsBlockState ==
    /\ [][ (Len(sleepLog') = Len(sleepLog) + 1
              /\ sleepLog'[Len(sleepLog')].kind \in QuietKinds)
             => /\ _block_count' = _block_count
                /\ _blocked_reason' = _blocked_reason
                /\ fpc' = "sleep"
                /\ fattempt' = fattempt ]_vars
    /\ [][ fpc = "sleep" => (fattempt' = fattempt + 1 /\ UNCHANGED blockVars) ]_vars
    /\ [](fattempt = Len(sleepLog) - (IF fpc = "sleep" THEN 1 ELSE 0))
    /\ [](fattempt <= max_retries)

\* a 429 was recorded on the first attempt, every later attempt raised, and
\* the fetch gave up with the block state the 429 left
C31_Witness ==
    /\ fpc = "returned"
    /\ fresult.ret = "none"
    /\ Len(sleepLog) = max_retries
    /\ sleepLog[1].kind = "429"
    /\ \A k \in 2..Len(sleepLog) : sleepLog[k].kind = "exception"
    /\ fattempt = max_retries
    /\ _block_count = 1
    /\ _blocked_reason = "httpx 429"

\* C32: a call of _fetch_detail_via_httpx_async that returns a value other
\* than None returns the text of the response it was answered with last, that
\* response has status 200, and the text is not empty and not flagged by the
\* classifier; a result of None carries no body.
C32_ReturnsOnlyClean200Body ==
    /\ fresult.ret = "body" =>
          /\ fresult.answer.kind = "resp"
          /\ fresult.answer.status = 200
          /\ fresult.text = fresult.answer.text
          /\ ~fresult.text.empty
          /\ _detect_captcha_or_unusual_traffic(fresult.text) = None
    /\ fresult.ret # "body" => fresult.text = EmptyBody

\* the call was answered by a block page, slept, and returned the clean body
\* of its next answer
C32_Witness ==
    /\ fpc = "returned"
    /\ fresult.ret = "body"
    /\ fresult.text = CleanBody("none")
    /\ Len(sleepLog) = 1
    /\ sleepLog[1].kind = "block page"
    /\ frequests = 2

\* --------------------------------------------- claims on the block state
\* C33: between two operations of a scraper, _blocked_reason is None exactly
\* when _block_count is 0; the same holds for the scraper of every job of a
\* parallel batch.
C33_ReasonNoneIffCountZero ==
    /\ (_blocked_reason = None) <=> (_block_count = 0)
    /\ \A j \in Rows : (child[j].reason = None) <=> (child[j].count = 0)

\* blocks were recorded, a clean fetch reset them, and a block was recorded
\* again
C33_Witness ==
    /\ phase = "fast"
    /\ clearedNonzero
    /\ _block_count = 1
    /\ _blocked_reason = "unusual traffic detected"

\* ------------------------------------------------ claims on the batch (2)
\* the step of the sequential loop that begins the body for the next author
StartsNextJob == jobIdx' = jobIdx + 1

\* C34: in sequential mode with pause_on_block set and block_retry_limit >= 1,
\* every job after the first starts with _block_count < block_retry_limit:
\* the step that starts it either follows a check that found the count below
\* the limit or a pause, which resets the count to 0.
C34_NextJobStartsBelowLimit ==
    /\ [][ (author_concurrency <= 1 /\ pause_on_block /\ block_retry_limit >= 1
              /\ StartsNextJob)
             => /\ bpc' = "scrape"
                /\ _block_count' < block_retry_limit
                /\ bpc = "pause" => _block_count' = 0
                /\ bpc = "check" => _block_count' = _block_count ]_vars
    /\ [](( /\ author_concurrency <= 1 /\ pause_on_block /\ bpc = "scrape"
            /\ jobIdx > 1 /\ events[jobIdx] = 0)
              => _block_count < block_retry_limit)

\* limit 2: the first job recorded one block, no pause was due, and the second
\* job starts with the count at 1
C34_Witness ==
    /\ author_concurrency <= 1
    /\ pause_on_block
    /\ block_retry_limit = 2
    /\ bpc = "scrape"
    /\ jobIdx = 2
    /\ events[jobIdx] = 0
    /\ pauses = 0
    /\ _block_count = 1

\* C35: with pause_on_block false the sequential scheduler never starts the
\* pause and never changes the block state itself: the step that stores a
\* job's result, the check after it and the step that starts the next job all
\* leave _block_count and _blocked_reason as the job left them.  (In parallel
\* mode there is no pause at all.)
C35_NoPauseNoResetWhenDisabled ==
    /\ [][ (author_concurrency <= 1 /\ ~pause_on_block) =>
             /\ pauses' = pauses
             /\ bpc' # "pause"
             /\ (bpc = "scrape" /\ bpc' = "check") => UNCHANGED blockVars
             /\ bpc = "check" => UNCHANGED blockVars
             /\ StartsNextJob => (bpc = "check" /\ UNCHANGED blockVars) ]_vars
    /\ []((~pause_on_block \/ author_concurrency > 1) => (pauses = 0 /\ bpc # "pause"))

\* the breaker is disabled, the first job left two recorded blocks with the
\* limit at 1, and the second job starts with them
C35_Witness ==
    /\ author_concurrency <= 1
    /\ ~pause_on_block
    /\ block_retry_limit = 1
    /\ bpc = "scrape"
    /\ jobIdx = 2
    /\ events[jobIdx] = 0
    /\ pauses = 0
    /\ _block_count = 2
    /\ _blocked_reason = "captcha challenge"

\* ------------------------------------- claims on the pool's concurrency
\* C36 (as claimed): for every integer concurrency that main passes on, 0 and
\* negative values included, the fast tier terminates, and when it is left no
\* worker is still inside its fetch.
C36_FastTierTerminatesForAnyConcurrency ==
    /\ (phase = "fast") ~> (phase # "fast")
    /\ [][ (phase = "fast" /\ phase' # "fast") =>
              \A i \in Pubs : pc[i] \in {"idle", "done"} ]_vars

\* ------------------------ the scraper of a worker of the parallel batch
\* values of self.user_agents / self.proxies: None or a list
Pools == {<<>>, <<"entry-a">>}

BlockLimits == (1..MaxBlockLimit) \cup {DefaultBlockLimit}

PauseSeconds == {0, DefaultPause}

\* the options of the scraper process_authors_batch is called on
ParentOptions ==
    [made |-> TRUE, use_httpx |-> use_httpx, concurrency |-> concurrency,
     max_retries |-> max_retries, backoff_factor |-> backoff_factor,
     user_agents |-> user_agents, proxies |-> proxy_pool,
     block_retry_limit |-> block_retry_limit, pause_on_block |-> pause_on_block,
     blocked_pause_seconds |-> blocked_pause_seconds]

\* process_authors_batch with author_concurrency > 1 on a scraper that main
\* or a library caller has configured, before a worker runs
InitWorker ==
    /\ driver \in {"selenium", "playwright"}
    /\ use_httpx \in BOOLEAN
    /\ concurrency \in 1..MaxConcurrency
    /\ RunIdle
    /\ Fetch1Idle /\ ClassifyIdle /\ ProfileIdle
    /\ HeavyIdle
    /\ _block_count = 0
    /\ _blocked_reason = None
    /\ rows = <<>>
    /\ authors = <<>>
    /\ author_concurrency = MaxAuthorConcurrency
    /\ pause_on_block \in BOOLEAN
    /\ block_retry_limit \in BlockLimits
    /\ results = EmptyResults
    /\ bpc = "pool"
    /\ jobIdx = 0
    /\ events = [j \in Rows |-> 0]
    /\ jpc = [j \in Rows |-> "none"]
    /\ outcome = [j \in Rows |-> "pending"]
    /\ child = [j \in Rows |-> FreshBlockState]
    /\ pauses = 0
    /\ clock = 0
    /\ startAt = [j \in Rows |-> 0]
    /\ equalT = TRUE
    /\ mpc = "fetching"
    /\ args = NoArgs
    /\ user_agents \in Pools
    /\ proxy_pool \in Pools
    /\ proxies = (proxy_pool # <<>>)
    /\ lastLoad = NoLoad
    /\ fetchStarted = TRUE
    /\ blocked_pause_seconds \in PauseSeconds
    /\ child_options = NoChild

\* _worker: child = GoogleScholarScraper(headless, delay_range, driver), then
\* the five assignments `child.x = self.x`; the child calls scrape_profile
\* with these options
WorkerConstruct ==
    /\ bpc = "pool"
    /\ ~child_options.made
    /\ child_options' = [ConstructorOptions EXCEPT
                            !.use_httpx = use_httpx,
                            !.concurrency = concurrency,
                            !.max_retries = max_retries,
                            !.backoff_factor = backoff_factor,
                            !.user_agents = user_agents]
    /\ UNCHANGED <<heavyVars, blocked_pause_seconds, mpc, args, user_agents, proxy_pool, lastLoad,
                   fetchStarted, blockVars, fetchCore, batchVars, fetch1Vars,
                   classifyVars, profileVars>>

\* _worker returns and its scraper is dropped
WorkerReturn ==
    /\ bpc = "pool"
    /\ child_options.made
    /\ child_options' = NoChild
    /\ UNCHANGED <<heavyVars, blocked_pause_seconds, mpc, args, user_agents, proxy_pool, lastLoad,
                   fetchStarted, blockVars, fetchCore, batchVars, fetch1Vars,
                   classifyVars, profileVars>>

NextWorker == WorkerConstruct \/ WorkerReturn

SpecWorker == InitWorker /\ [][NextWorker]_vars

\* C37 (as claimed): the scraper of a parallel worker has the parent's
\* use_httpx, concurrency, max_retries, backoff_factor, user_agents, proxies,
\* block_retry_limit, pause_on_block and blocked_pause_seconds.
C37_WorkerHasParentOptions == child_options.made => child_options = ParentOptions

\* ------------ the Playwright tier, context by context
\* (_fetch_details_with_playwright_async and its _worker, one action per
\* stretch between two awaits)
cfgCore == <<driver, use_httpx, proxies, concurrency, publications0, batchVars,
             fetch1Vars, classifyVars, profileVars, configVars>>

\* the failed_indices the fast tier can hand over
FailedLists == {q \in UNION {[1..n -> Pubs] : n \in 1..NPubs} : NoDuplicates(q)}

\* the call asyncio.run(self._fetch_details_with_playwright_async(publications,
\* failed_indices)) on a scraper whose block state is as constructed: the fast
\* tier has resolved the publications outside failed_indices
InitHeavy ==
    /\ BatchIdle
    /\ Fetch1Idle /\ ClassifyIdle /\ ProfileIdle /\ ConfigIdle
    /\ HeavyIdle
    /\ driver = "playwright"
    /\ use_httpx = TRUE
    /\ proxies \in BOOLEAN
    /\ concurrency \in 1..MaxConcurrency
    /\ publications \in [Pubs -> PubKinds]
    /\ publications0 = publications
    /\ failed_indices \in FailedLists
    /\ \A i \in Pubs : ~HasUrl(i) => InSeq(failed_indices, i)
    /\ phase = "heavy"
    /\ pc = [i \in Pubs |-> IF InSeq(failed_indices, i) THEN "idle" ELSE "done"]
    /\ attempt = [i \in Pubs |-> 0]
    /\ proxy = [i \in Pubs |-> None]
    /\ sem = HeavyCeiling
    /\ successful = Cardinality({i \in Pubs : CountedByFastTier(i)})
    /\ failed = 0
    /\ success_holder = 0
    /\ fail_holder = 0
    /\ gatherRaised = FALSE
    /\ seqPos = 1
    /\ seqReason = None
    /\ _block_count = 0
    /\ _blocked_reason = None
    /\ hist = [i \in Pubs |-> IF HasUrl(i) THEN <<"fast">> ELSE <<>>]
    /\ resolvers = [i \in Pubs |-> IF InSeq(failed_indices, i) THEN {} ELSE {"fast"}]
    /\ requests = [i \in Pubs |-> 0]
    /\ fetchResult = [i \in Pubs |-> "pending"]
    /\ allBlocked = FALSE
    /\ clearedNonzero = FALSE
    /\ unrecorded = 0
    /\ fetchBody = [i \in Pubs |-> EmptyBody]
    /\ lastClean = [i \in Pubs |-> EmptyBody]
    /\ delays = 0
    /\ fastBlocked = FALSE

\* _worker(idx) takes a permit.  Without a url it counts a failure and
\* leaves.  Otherwise `proxy = self._pick_proxy()`; with a proxy, or while
\* _worker has no _shared_context, it awaits browser.new_context; else it
\* takes the shared context and awaits context.new_page().
HeavyEnter(i) ==
    /\ phase = "heavy"
    /\ pc[i] = "idle"
    /\ \A j \in Pubs : IndexOf(failed_indices, j) < IndexOf(failed_indices, i)
                          => pc[j] # "idle"
    /\ Acquire
    /\ IF ~HasUrl(i)
       THEN /\ fail_holder' = fail_holder + 1
            /\ pc' = [pc EXCEPT ![i] = "done"]
            /\ UNCHANGED <<sem, context>>
       ELSE /\ sem' = sem - 1
            /\ UNCHANGED fail_holder
            /\ IF _pick_proxy(proxies) # None \/ _shared_context = 0
               THEN /\ pc' = [pc EXCEPT ![i] = "new_context"]
                    /\ UNCHANGED context
               ELSE /\ pc' = [pc EXCEPT ![i] = "new_page"]
                    /\ context' = [context EXCEPT ![i] = _shared_context]
    /\ UNCHANGED <<cfgCore, _shared_context, created, closed, pageUnbound,
                   publications, phase, attempt, proxy, failed_indices, successful,
                   failed, success_holder, gatherRaised, seqPos, seqReason, blockVars,
                   histVars>>

\* a worker's exception leaves gather and asyncio.run: the except branch of
\* _fetch_details_concurrently hands failed_indices to the sequential loop
\* (the code after gather, which closes the shared context, is not reached)
HeavyRaisesOut ==
    /\ gatherRaised' = TRUE
    /\ EnterSequential(failed_indices)
    /\ success_holder' = 0
    /\ fail_holder' = 0
    /\ sem' = concurrency
    /\ UNCHANGED <<cfgCore, publications, attempt, proxy, failed_indices, successful,
                   failed, seqReason, blockVars, histVars>>

\* browser.new_context is answered (or raises).  With a proxy the context is
\* the worker's own and `page` is never assigned: page.goto raises
\* UnboundLocalError inside the try and page.close() raises it again in the
\* finally block, before context.close().  Without a proxy the context is
\* stored in _worker._shared_context, taken as `context`, and
\* context.new_page() is awaited.
HeavyNewContext(i, ok) ==
    /\ phase = "heavy"
    /\ pc[i] = "new_context"
    /\ IF ~ok
       THEN /\ HeavyRaisesOut
            /\ UNCHANGED heavyVars
       ELSE /\ created' = created + 1
            /\ context' = [context EXCEPT ![i] = created + 1]
            /\ UNCHANGED closed
            /\ IF _pick_proxy(proxies) # None
               THEN /\ pageUnbound' = TRUE
                    /\ HeavyRaisesOut
                    /\ UNCHANGED _shared_context
               ELSE /\ _shared_context' = created + 1
                    /\ pc' = [pc EXCEPT ![i] = "new_page"]
                    /\ UNCHANGED <<pageUnbound, cfgCore, publications, phase, attempt,
                                   proxy, sem, failed_indices, successful, failed,
                                   success_holder, fail_holder, gatherRaised, seqPos,
                                   seqReason, blockVars, histVars>>

\* context.new_page() is answered: the worker enters the try block and awaits
\* page.goto; an exception of new_page leaves the worker
HeavyNewPage(i, ok) ==
    /\ phase = "heavy"
    /\ pc[i] = "new_page"
    /\ IF ok
       THEN /\ pc' = [pc EXCEPT ![i] = "goto"]
            /\ hist' = Append1(hist, i, "heavy")
            /\ UNCHANGED <<cfgVars, publications, phase, attempt, proxy, sem, failed_indices,
                           successful, failed, success_holder, fail_holder,
                           gatherRaised, seqPos, seqReason, blockVars, resolvers,
                           requests, fetchResult, allBlocked, clearedNonzero,
                           unrecorded, bodyVars, delays, fastBlocked>>
       ELSE HeavyWorkerRaises

\* gather returns: `if hasattr(_worker, '_shared_context')` closes the
\* context the attribute holds, then (success_holder[0], fail_holder[0]) goes
\* back to the caller, which adds it to its counts
HeavyReturn ==
    /\ phase = "heavy"
    /\ \A i \in Pubs : pc[i] = "done"
    /\ closed' = IF _shared_context # 0 THEN closed \cup {_shared_context} ELSE closed
    /\ successful' = successful + success_holder
    /\ failed' = failed + fail_holder
    /\ phase' = "done"
    /\ UNCHANGED <<cfgCore, _shared_context, created, context, pageUnbound,
                   publications, pc, attempt, proxy, sem, failed_indices,
                   success_holder, fail_holder, gatherRaised, seqPos, seqReason,
                   blockVars, histVars>>

NextHeavy ==
    \/ HeavyImportFails
    \/ HeavyLaunchRaises
    \/ \E i \in Pubs : HeavyEnter(i)
    \/ \E i \in Pubs, ok \in BOOLEAN : HeavyNewContext(i, ok)
    \/ \E i \in Pubs, ok \in BOOLEAN : HeavyNewPage(i, ok)
    \/ \E i \in Pubs, out \in DriverOutcomes : HeavyRespond(i, out)
    \/ \E i \in Pubs, ok \in BOOLEAN : HeavyClose(i, ok)
    \/ HeavyReturn

SpecHeavy == InitHeavy /\ [][NextHeavy]_vars

\* C38 (as claimed): with or without a proxy no worker navigates or closes a
\* page it has not opened, and when the tier returns every target whose page
\* was clean and parseable has been counted as a success of the tier.
C38_PageOpenedBeforeUse ==
    /\ ~pageUnbound
    /\ phase = "done" =>
          success_holder = Cardinality({i \in Pubs : "heavy" \in resolvers[i]})

\* C39 (as claimed): without a proxy the workers of one run create at most
\* one browser context, and when the tier returns every context that was
\* created has been closed.
C39_OneSharedContext ==
    ~proxies =>
        /\ created <= 1
        /\ phase = "done" => closed = 1..created

====
